---- MODULE Spec2Model ----
(***************************************************************************)
(* Cache-aside product and cart controllers of the e-commerce backend.     *)
(*                                                                         *)
(* The repository holds two revisions of the product controller:           *)
(*   "Product.c"  src/src/controller/Product.c.ts                          *)
(*   "part_004"   src/unnamed/part_004 (helpers factored out)              *)
(* and one cart controller, src/unnamed/part_003.  The variable            *)
(* `controller` fixes which product revision a behaviour runs.             *)
(*                                                                         *)
(* JavaScript values that may be undefined or NaN are modelled as sets of  *)
(* at most one element: {} is undefined (or NaN), {v} is the value v.      *)
(***************************************************************************)
EXTENDS Integers, Sequences, FiniteSets, TLC

VARIABLES
    controller,   \* which ProductCtrl revision is deployed
    products,     \* productTable: id -> row, for the ids that have a row
    nextId,       \* the identity column's next value
    cache,        \* redis string keys of the product controller: key -> JSON value
    last,         \* the request handled last and the response it got
    handled,      \* how many requests have been handled
    cartTable,    \* cartTable: row id -> row
    cartNextId,   \* the identity column's next value in cartTable
    carts,        \* redis hashes: cart key -> [fields: productId -> snapshot, ttl]
    keyReq,       \* a pair of listing requests whose cache keys are compared
    inflight      \* requests suspended at an await: slot -> position and locals

vars == <<controller, products, nextId, cache, last, handled, cartTable, cartNextId, carts,
          keyReq, inflight>>

(***************************************************************************)
(* Bounds of the model.                                                    *)
(***************************************************************************)
MaxProducts == 2
MaxRequests == 4
MaxCartRequests == 3
MaxConcRequests == 3
MaxInflight == 2
MaxMixedRequests == 2

(***************************************************************************)
(* Program constants.                                                      *)
(***************************************************************************)
DEFAULT_PAGE == 1
DEFAULT_LIMIT == 10
MAX_LIMIT == 100
CACHE_TTL == 300
PRODUCT_TTL == 3600
PRODUCT_CACHE_PREFIX == "product:"
PRODUCTS_CACHE_PREFIX == "products:"

Revisions == {"Product.c", "part_004"}

(***************************************************************************)
(* JavaScript helpers.                                                     *)
(***************************************************************************)
Some(o) == CHOOSE v \in o : TRUE

Max(a, b) == IF a >= b THEN a ELSE b
Min(a, b) == IF a <= b THEN a ELSE b

Digits == <<"0", "1", "2", "3", "4", "5", "6", "7", "8", "9">>
IsDigit(c) == \E d \in 1..10 : Digits[d] = c
DigitVal(c) == (CHOOSE d \in 1..10 : Digits[d] = c) - 1
CharAt(s, i) == SubSeq(s, i, i)

RECURSIVE DigitsPrefix(_, _, _)
DigitsPrefix(s, i, acc) ==
    IF i > Len(s) \/ ~IsDigit(CharAt(s, i))
    THEN acc
    ELSE DigitsPrefix(s, i + 1, acc * 10 + DigitVal(CharAt(s, i)))

\* parseInt(s) for a string without leading blanks or a 0x prefix: an optional
\* sign, then the longest prefix of decimal digits; NaN ({}) when there is none.
ParseIntStr(s) ==
    LET signed == Len(s) > 0 /\ CharAt(s, 1) \in {"-", "+"}
        start == IF signed THEN 2 ELSE 1
        sign == IF Len(s) > 0 /\ CharAt(s, 1) = "-" THEN -1 ELSE 1
    IN  IF start > Len(s) \/ ~IsDigit(CharAt(s, start))
        THEN {}
        ELSE {sign * DigitsPrefix(s, start, 0)}

\* parseInt of a query or path parameter that may be absent: parseInt(undefined) is NaN.
parseInt(o) == IF o = {} THEN {} ELSE ParseIntStr(Some(o))

\* n || d for a number n: NaN and 0 are falsy.
OrNumber(n, d) == IF n = {} \/ n = {0} THEN d ELSE Some(n)

\* s || d for a string s: undefined and "" are falsy.
OrString(o, d) == IF o = {} \/ o = {""} THEN d ELSE Some(o)

\* A template literal of a string that may be undefined.
Template(o) == IF o = {} THEN "undefined" ELSE Some(o)

\* Math.ceil(a / b) for integers a and b # 0 (\div rounds towards minus infinity).
Ceil(a, b) == -((-a) \div b)

\* a < b where b may be undefined: any comparison with undefined is false.
JsLess(a, ob) == \E b \in ob : a < b

(***************************************************************************)
(* Listing parameters and the listing cache key.                           *)
(***************************************************************************)
\* The template of sortOrder: sortOrder is the asc or desc function of drizzle-orm,
\* so the key holds the source text of that function.
AscText == "function asc(column) { [drizzle-orm source] }"
DescText == "function desc(column) { [drizzle-orm source] }"
SortOrderText(dir) == IF dir = "desc" THEN DescText ELSE AscText

getPaginationParams(rev, q) ==
    [ page |-> IF rev = "part_004"
               THEN Max(OrNumber(parseInt(q.page), DEFAULT_PAGE), 1)
               ELSE OrNumber(parseInt(q.page), DEFAULT_PAGE),
      limit |-> Min(OrNumber(parseInt(q.limit), DEFAULT_LIMIT), MAX_LIMIT) ]

\* The effective parameters of a listing request.
ListingParams(rev, q) ==
    [ page |-> getPaginationParams(rev, q).page,
      limit |-> getPaginationParams(rev, q).limit,
      sortBy |-> OrString(q.sortBy, "createdAt"),
      sortOrder |-> IF q.sortOrder = {"desc"} THEN "desc" ELSE "asc",
      category |-> q.category ]

\* part_004: every entry of {page, limit, sortBy, sortOrder, category} is appended
\* as "k:v:", category also when it is undefined; slice(0, -1) drops the last ":".
buildProductsCacheKey(p) ==
    LET full == PRODUCTS_CACHE_PREFIX
                \o "page:" \o ToString(p.page) \o ":"
                \o "limit:" \o ToString(p.limit) \o ":"
                \o "sortBy:" \o p.sortBy \o ":"
                \o "sortOrder:" \o SortOrderText(p.sortOrder) \o ":"
                \o "category:" \o Template(p.category) \o ":"
    IN  SubSeq(full, 1, Len(full) - 1)

\* Product.c: the category part is appended only when category is truthy.
InlineCacheKey(p) ==
    "products:page:" \o ToString(p.page)
    \o ":limit:" \o ToString(p.limit)
    \o ":sortBy:" \o p.sortBy
    \o ":sortOrder:" \o SortOrderText(p.sortOrder)
    \o (IF p.category = {} \/ p.category = {""}
        THEN ""
        ELSE ":category:" \o Some(p.category))

ListingCacheKey(rev, q) ==
    IF rev = "part_004"
    THEN buildProductsCacheKey(ListingParams(rev, q))
    ELSE InlineCacheKey(ListingParams(rev, q))

ProductCacheKey(id) == PRODUCT_CACHE_PREFIX \o ToString(id)

\* MATCH "products:*"
IsListingKey(k) ==
    Len(k) >= Len(PRODUCTS_CACHE_PREFIX)
    /\ SubSeq(k, 1, Len(PRODUCTS_CACHE_PREFIX)) = PRODUCTS_CACHE_PREFIX


(***************************************************************************)
(* productTable and the queries the controller runs on it.                 *)
(***************************************************************************)
Rows == {products[i] : i \in DOMAIN products}

\* category ? [eq(productTable.category, category)] : []
WhereCategory(S, category) ==
    IF category = {} \/ category = {""}
    THEN S
    ELSE {r \in S : r.category = Some(category)}

Alphabet == "0123456789abcdefghijklmnopqrstuvwxyz"
CharRank(c) ==
    IF \E i \in 1..Len(Alphabet) : CharAt(Alphabet, i) = c
    THEN CHOOSE i \in 1..Len(Alphabet) : CharAt(Alphabet, i) = c
    ELSE 0

RECURSIVE StrLessFrom(_, _, _)
StrLessFrom(a, b, i) ==
    IF i > Len(b) THEN FALSE
    ELSE IF i > Len(a) THEN TRUE
    ELSE IF CharRank(CharAt(a, i)) # CharRank(CharAt(b, i))
         THEN CharRank(CharAt(a, i)) < CharRank(CharAt(b, i))
         ELSE StrLessFrom(a, b, i + 1)
StrLess(a, b) == StrLessFrom(a, b, 1)

\* validSortColumns[sortBy] || productTable.created_at
SortColumn(sortBy) ==
    IF sortBy \in {"id", "name", "price", "category"} THEN sortBy ELSE "created_at"

\* r sorts strictly before s on column col
ColumnLess(r, s, col) ==
    CASE col = "id" -> r.id < s.id
      [] col = "price" -> r.price < s.price
      [] col = "created_at" -> r.created_at < s.created_at
      [] col = "name" -> StrLess(r.name, s.name)
      [] col = "category" -> StrLess(r.category, s.category)

\* ORDER BY col dir: every order of S the store may return (ties in any order).
OrderBy(S, col, dir) ==
    { sq \in [1..Cardinality(S) -> S] :
        /\ \A i, j \in 1..Cardinality(S) : i # j => sq[i] # sq[j]
        /\ \A i, j \in 1..Cardinality(S) :
              i < j => IF dir = "desc"
                       THEN ~ColumnLess(sq[i], sq[j], col)
                       ELSE ~ColumnLess(sq[j], sq[i], col) }

\* LIMIT limit OFFSET offset, for limit >= 0 and offset >= 0
LimitOffset(sq, limit, offset) ==
    IF offset >= Len(sq) \/ limit = 0
    THEN <<>>
    ELSE SubSeq(sq, offset + 1, Min(offset + limit, Len(sq)))

\* The listings the two queries of getProducts may produce for parameters p:
\* the count under the filter, then the sorted page.
ListingResults(S, p) ==
    LET matching == WhereCategory(S, p.category)
        totalCount == Cardinality(matching)
        offset == (p.page - 1) * p.limit
    IN  { [ products |-> LimitOffset(sq, p.limit, offset),
            totalCount |-> totalCount,
            totalPages |-> Ceil(totalCount, p.limit),
            offset |-> offset ] :
          sq \in OrderBy(matching, SortColumn(p.sortBy), p.sortOrder) }

\* The store rejects a negative LIMIT or OFFSET.
QueryRejected(p) == p.limit < 0 \/ (p.page - 1) * p.limit < 0


(***************************************************************************)
(* Cached values and responses.  A value is held in its JSON form: res.json *)
(* and JSON.stringify serialize alike, and a field that is undefined ({})   *)
(* is a field JSON drops.                                                   *)
(***************************************************************************)
\* const { x } = obj: the top-level property x of a parsed object, or undefined.
Field(obj, name) == IF name \in DOMAIN obj THEN {obj[name]} ELSE {}

\* responseData of getProducts on a miss: the value written to the cache.  Product.c
\* keeps hasNext/hasPrev inside it, part_004 adds them to the response only.
ResponseData(rev, p, res) ==
    [ products |-> res.products,
      pagination |->
        [ page |-> p.page,
          limit |-> p.limit,
          totalCount |-> {res.totalCount},
          totalPages |-> {res.totalPages},
          hasNext |-> IF rev = "part_004" THEN {} ELSE {p.page < res.totalPages},
          hasPrev |-> IF rev = "part_004" THEN {} ELSE {p.page > 1} ] ]

\* The body sent on a miss.
MissBody(rev, p, res) ==
    [ products |-> res.products,
      pagination |->
        [ page |-> p.page,
          limit |-> p.limit,
          totalCount |-> {res.totalCount},
          totalPages |-> {res.totalPages},
          hasNext |-> {p.page < res.totalPages},
          hasPrev |-> {p.page > 1} ] ]

\* The body sent on a hit: products, totalCount and totalPages are destructured
\* from the top level of the parsed entry, the flags are recomputed.
HitBody(p, parsed) ==
    [ products |-> Some(Field(parsed, "products")),
      pagination |->
        [ page |-> p.page,
          limit |-> p.limit,
          totalCount |-> Field(parsed, "totalCount"),
          totalPages |-> Field(parsed, "totalPages"),
          hasNext |-> {JsLess(p.page, Field(parsed, "totalPages"))},
          hasPrev |-> {p.page > 1} ] ]

Message(text) == [message |-> text]

(***************************************************************************)
(* Cache operations.  A cache entry carries the TTL it was written with.   *)
(***************************************************************************)
CacheGet(c, k) == IF k \in DOMAIN c THEN {c[k].value} ELSE {}

\* a set that never reaches the cache
CacheSetLost(c, k, v, ttl) == c

CacheSet(c, k, v, ttl) ==
    [x \in DOMAIN c \cup {k} |-> IF x = k THEN [value |-> v, ttl |-> ttl] ELSE c[x]]

CacheDel(c, ks) == [x \in DOMAIN c \ ks |-> c[x]]

ListingKeys(c) == {k \in DOMAIN c : IsListingKey(k)}

\* A SCAN iteration over the keys K that match: the reply, first to last, in
\* which each key is returned.  A reply may hold no key.
ScanReplies(K) == [K -> 1..Max(1, Cardinality(K))]

\* the body of do ... while with the loop condition dropped: one SCAN reply
ScanOnce(c, reply, page, final) == CacheDel(c, {k \in DOMAIN reply : reply[k] = page})

\* do { scan(cursor); del(res.keys) } while (cursor !== "0"): the keys of reply
\* page are deleted, then the next reply is asked for, until the final one,
\* which comes with cursor "0"
RECURSIVE ScanLoop(_, _, _, _)
ScanLoop(c, reply, page, final) ==
    LET deleted == CacheDel(c, {k \in DOMAIN reply : reply[k] = page})
    IN  IF page = final THEN deleted ELSE ScanLoop(deleted, reply, page + 1, final)

\* an invalidation that empties the cache instead of scanning for listing keys
InvalidateFlushes(c) == {[cache |-> <<>>, failed |-> f] : f \in BOOLEAN}

\* The scan loop over "products:*".  Without a cache error the loop runs to the
\* final reply.  A SCAN or DEL that throws ends the loop: the keys of the replies
\* handled before it are gone, the rest survive.  The error is caught and logged.
invalidateCachePattern(c) ==
    { [cache |-> ScanLoop(c, reply, 1, Max(1, Cardinality(ListingKeys(c)))),
       failed |-> FALSE] : reply \in ScanReplies(ListingKeys(c)) }
    \cup
    { [cache |-> CacheDel(c, D), failed |-> TRUE] : D \in SUBSET ListingKeys(c) }


(***************************************************************************)
(* Requests the model issues against the product controller.               *)
(***************************************************************************)
NoBody == [name |-> {}, description |-> {}, price |-> {}, category |-> {}, inStock |-> {}]

CreateBodies ==
    { [name |-> {"anvil"}, description |-> {"d"}, price |-> {"10"}, category |-> {"c1"},
       inStock |-> {}],
      [name |-> {"bolt"}, description |-> {"d"}, price |-> {"5"}, category |-> {"undefined"},
       inStock |-> {FALSE}],
      [name |-> {}, description |-> {"d"}, price |-> {"5"}, category |-> {"c1"},
       inStock |-> {}] }

UpdateBodies ==
    { [NoBody EXCEPT !.price = {"7"}],
      [NoBody EXCEPT !.category = {"c1"}, !.inStock = {FALSE}],
      [NoBody EXCEPT !.price = {"-1"}],
      NoBody }

IdParams == {"1", "2", "abc"}

NoQuery == [page |-> {}, limit |-> {}, sortBy |-> {}, sortOrder |-> {}, category |-> {}]

Queries ==
    { NoQuery,
      [NoQuery EXCEPT !.page = {"1"}, !.limit = {"1"}],
      [NoQuery EXCEPT !.page = {"2"}, !.limit = {"1"}, !.sortBy = {"price"}],
      [NoQuery EXCEPT !.category = {"undefined"}],
      [NoQuery EXCEPT !.category = {"c1"}, !.sortOrder = {"desc"}] }

\* The record `last` keeps of a handled request: the operation, its input, the
\* response, the cache operations that threw ("store" when the persistent store
\* did), and the layers it accessed.
Done(op, input, status, body, faults, acc) ==
    [op |-> op, input |-> input, status |-> status, body |-> body,
     faults |-> faults, acc |-> acc]

(***************************************************************************)
(* ProductCtrl.                                                            *)
(***************************************************************************)
\* getId: parseInt(req.params.id), or the 400 response when that is NaN.
getId(idParam) == parseInt({idParam})

\* What a handler does after getId answered 400 for a NaN id: the layers it goes
\* on to access.  part_004 tests the null that getId returns and stops.  Product.c
\* tests productId instanceof Response, where Response is the type imported from
\* express: the import is erased when the file is transpiled and at run time the
\* name is the platform's global.  Where there is none the test throws, the outer
\* catch runs and nothing is accessed; where it is the fetch Response, the express
\* response is no instance of it and the handler goes on, with the response
\* object in place of the id, through the accesses in next.  The caller has the
\* 400 already and no row or key matches the object.
AfterInvalidId(rev, next) == IF rev = "part_004" THEN {{}} ELSE {{}} \cup next

\* !name || !description || !price || !category
MissingRequired(b) ==
    \E f \in {"name", "description", "price", "category"} : b[f] = {} \/ b[f] = {""}

NewRow(id, b) ==
    [ id |-> id,
      name |-> Some(b.name),
      description |-> Some(b.description),
      price |-> Some(ParseIntStr(Some(b.price))),
      category |-> Some(b.category),
      inStock |-> IF b.inStock = {} THEN TRUE ELSE Some(b.inStock),
      created_at |-> id ]

createProduct(b) ==
    \/ /\ MissingRequired(b)
       /\ last' = Done("createProduct", b, 400, Message("Missing required fields"), {}, {})
       /\ UNCHANGED <<products, nextId, cache>>
    \/ /\ ~MissingRequired(b)
       /\ last' = Done("createProduct", b, 500, Message("Error creating product"),
                       {"store"}, {"db"})
       /\ UNCHANGED <<products, nextId, cache>>
    \/ /\ ~MissingRequired(b)
       /\ ParseIntStr(Some(b.price)) # {}
       /\ nextId <= MaxProducts
       /\ products' = [i \in DOMAIN products \cup {nextId} |->
                         IF i = nextId THEN NewRow(nextId, b) ELSE products[i]]
       /\ nextId' = nextId + 1
       /\ \E out \in invalidateCachePattern(cache) :
            /\ cache' = out.cache
            /\ last' = Done("createProduct", b, 201, Message("Product created"),
                            IF out.failed THEN {"invalidate"} ELSE {}, {"db", "cache"})

getProducts(q) ==
    LET p == ListingParams(controller, q)
        cacheKey == ListingCacheKey(controller, q)
        cachedData == CacheGet(cache, cacheKey)
    IN  \/ /\ cachedData # {}
           /\ last' = Done("getProducts", q, 200, HitBody(p, Some(cachedData)), {}, {"cache"})
           /\ UNCHANGED <<products, nextId, cache>>
        \/ \E getFails \in BOOLEAN :
             /\ getFails \/ cachedData = {}
             /\ \/ /\ last' = Done("getProducts", q, 500, Message("Error fetching products"),
                                   (IF getFails THEN {"get"} ELSE {}) \cup {"store"},
                                   {"cache", "db"})
                   /\ UNCHANGED <<products, nextId, cache>>
                \/ /\ ~QueryRejected(p)
                   /\ \E res \in ListingResults(Rows, p), setFails \in BOOLEAN :
                        /\ cache' = IF setFails THEN cache
                                    ELSE CacheSet(cache, cacheKey,
                                                  ResponseData(controller, p, res), CACHE_TTL)
                        /\ last' = Done("getProducts", q, 200, MissBody(controller, p, res),
                                        (IF getFails THEN {"get"} ELSE {})
                                          \cup (IF setFails THEN {"set"} ELSE {}),
                                        {"cache", "db"})
                   /\ UNCHANGED <<products, nextId>>

getProductById(idParam) ==
    LET productId == getId(idParam)
        cacheKey == ProductCacheKey(Some(productId))
        cachedProduct == CacheGet(cache, cacheKey)
    IN  \/ /\ productId = {}
           /\ \E acc \in AfterInvalidId(controller, {{"cache"}, {"cache", "db"}}) :
                last' = Done("getProductById", idParam, 400, Message("Invalid product ID"),
                             {}, acc)
           /\ UNCHANGED <<products, nextId, cache>>
        \/ /\ productId # {}
           /\ cachedProduct # {}
           /\ last' = Done("getProductById", idParam, 200, Some(cachedProduct), {}, {"cache"})
           /\ UNCHANGED <<products, nextId, cache>>
        \* Product.c awaits redisClient.get outside any inner try: the error reaches
        \* the outer catch.
        \/ /\ productId # {}
           /\ controller = "Product.c"
           /\ last' = Done("getProductById", idParam, 500, Message("Error fetching product"),
                           {"get"}, {"cache"})
           /\ UNCHANGED <<products, nextId, cache>>
        \/ /\ productId # {}
           /\ \E getFails \in BOOLEAN :
                /\ getFails => controller = "part_004"
                /\ getFails \/ cachedProduct = {}
                /\ LET getFault == IF getFails THEN {"get"} ELSE {}
                   IN \/ /\ last' = Done("getProductById", idParam, 500,
                                         Message("Error fetching product"),
                                         getFault \cup {"store"}, {"cache", "db"})
                         /\ UNCHANGED cache
                      \/ /\ Some(productId) \notin DOMAIN products
                         /\ last' = Done("getProductById", idParam, 404,
                                         Message("Product not found"), getFault,
                                         {"cache", "db"})
                         /\ UNCHANGED cache
                      \/ /\ Some(productId) \in DOMAIN products
                         /\ cache' = CacheSet(cache, cacheKey, products[Some(productId)],
                                              PRODUCT_TTL)
                         /\ last' = Done("getProductById", idParam, 200,
                                         products[Some(productId)], getFault,
                                         {"cache", "db"})
                      \* setEx throws: part_004 logs it and answers with the row,
                      \* Product.c lets it reach the outer catch.
                      \/ /\ Some(productId) \in DOMAIN products
                         /\ last' = Done("getProductById", idParam,
                                         IF controller = "part_004" THEN 200 ELSE 500,
                                         IF controller = "part_004"
                                         THEN products[Some(productId)]
                                         ELSE Message("Error fetching product"),
                                         getFault \cup {"setEx"}, {"cache", "db"})
                         /\ UNCHANGED cache
           /\ UNCHANGED <<products, nextId>>


UpdatableFields == {"name", "description", "price", "category", "inStock"}

\* Object.values(updatableFields).every(v => v === undefined || v === null)
NoValidFields(b) == \A f \in UpdatableFields : b[f] = {}

\* a price check that lets every price through
PriceNeverInvalid(b) == FALSE

\* price !== undefined && (isNaN(parseFloat(price)) || parseFloat(price) < 0)
InvalidPrice(b) ==
    b.price # {} /\ (ParseIntStr(Some(b.price)) = {} \/ Some(ParseIntStr(Some(b.price))) < 0)

\* an update that replaces the whole row: an absent text field is emptied
ReplacedRow(row, b) ==
    [ id |-> row.id,
      name |-> IF b.name # {} THEN Some(b.name) ELSE "",
      description |-> IF b.description # {} THEN Some(b.description) ELSE "",
      price |-> IF b.price # {} THEN Some(ParseIntStr(Some(b.price))) ELSE row.price,
      category |-> IF b.category # {} THEN Some(b.category) ELSE "",
      inStock |-> IF b.inStock # {} THEN Some(b.inStock) ELSE row.inStock,
      created_at |-> row.created_at ]

\* updateData applied to a row: only the supplied fields change.
UpdatedRow(row, b) ==
    [ id |-> row.id,
      name |-> IF b.name # {} THEN Some(b.name) ELSE row.name,
      description |-> IF b.description # {} THEN Some(b.description) ELSE row.description,
      price |-> IF b.price # {} THEN Some(ParseIntStr(Some(b.price))) ELSE row.price,
      category |-> IF b.category # {} THEN Some(b.category) ELSE row.category,
      inStock |-> IF b.inStock # {} THEN Some(b.inStock) ELSE row.inStock,
      created_at |-> row.created_at ]

\* a write that leaves every cache key in place
InvalidateNothing(rev, c, key) == {[cache |-> c, faults |-> {}, thrown |-> FALSE]}

\* The cache invalidation of updateProduct and deleteProduct after the store write.
\* Product.c deletes product:<id> inside a try/catch and leaves the listing keys.
\* part_004 awaits Promise.all([invalidateCachePattern("products:*"), del(product:<id>)]):
\* the scan loop catches its own errors, a throwing del rejects the Promise.all.
InvalidateOnWrite(rev, c, key) ==
    IF rev = "part_004"
    THEN UNION { { [cache |-> CacheDel(out.cache, {key}),
                    faults |-> IF out.failed THEN {"invalidate"} ELSE {},
                    thrown |-> FALSE],
                   [cache |-> out.cache,
                    faults |-> (IF out.failed THEN {"invalidate"} ELSE {}) \cup {"del"},
                    thrown |-> TRUE] } : out \in invalidateCachePattern(c) }
    ELSE { [cache |-> CacheDel(c, {key}), faults |-> {}, thrown |-> FALSE],
           [cache |-> c, faults |-> {"del"}, thrown |-> FALSE] }

updateProduct(idParam, b) ==
    LET productId == getId(idParam)
        id == Some(productId)
        input == [id |-> idParam, body |-> b]
    IN  \/ /\ productId = {}
           /\ \E acc \in AfterInvalidId(controller,
                                       IF NoValidFields(b) \/ InvalidPrice(b)
                                       THEN {} ELSE {{"db"}}) :
                last' = Done("updateProduct", input, 400, Message("Invalid product ID"),
                             {}, acc)
           /\ UNCHANGED <<products, nextId, cache>>
        \/ /\ productId # {}
           /\ NoValidFields(b)
           /\ last' = Done("updateProduct", input, 400,
                           Message("No valid fields provided for update"), {}, {})
           /\ UNCHANGED <<products, nextId, cache>>
        \/ /\ productId # {}
           /\ ~NoValidFields(b)
           /\ InvalidPrice(b)
           /\ last' = Done("updateProduct", input, 400,
                           Message("Price must be a valid non-negative number"), {}, {})
           /\ UNCHANGED <<products, nextId, cache>>
        \/ /\ productId # {}
           /\ ~NoValidFields(b)
           /\ ~InvalidPrice(b)
           /\ \/ /\ last' = Done("updateProduct", input, 500,
                                 Message("Error updating product"), {"store"}, {"db"})
                 /\ UNCHANGED <<products, nextId, cache>>
              \/ /\ id \notin DOMAIN products
                 /\ last' = Done("updateProduct", input, 404,
                                 Message("Product not found"), {}, {"db"})
                 /\ UNCHANGED <<products, nextId, cache>>
              \/ /\ id \in DOMAIN products
                 /\ products' = [products EXCEPT ![id] = UpdatedRow(@, b)]
                 /\ \E out \in InvalidateOnWrite(controller, cache, ProductCacheKey(id)) :
                      /\ cache' = out.cache
                      /\ last' = Done("updateProduct", input,
                                      IF out.thrown THEN 500 ELSE 200,
                                      IF out.thrown THEN Message("Error updating product")
                                      ELSE UpdatedRow(products[id], b),
                                      out.faults, {"db", "cache"})
                 /\ UNCHANGED nextId

deleteProduct(idParam) ==
    LET productId == getId(idParam)
        id == Some(productId)
    IN  \/ /\ productId = {}
           /\ \E acc \in AfterInvalidId(controller, {{"db"}}) :
                last' = Done("deleteProduct", idParam, 400, Message("Invalid product ID"),
                             {}, acc)
           /\ UNCHANGED <<products, nextId, cache>>
        \/ /\ productId # {}
           /\ \/ /\ last' = Done("deleteProduct", idParam, 500,
                                 Message("Error deleting product"), {"store"}, {"db"})
                 /\ UNCHANGED <<products, nextId, cache>>
              \/ /\ id \notin DOMAIN products
                 /\ last' = Done("deleteProduct", idParam, 404,
                                 Message("Product not found"), {}, {"db"})
                 /\ UNCHANGED <<products, nextId, cache>>
              \/ /\ id \in DOMAIN products
                 /\ products' = [i \in DOMAIN products \ {id} |-> products[i]]
                 /\ \E out \in InvalidateOnWrite(controller, cache, ProductCacheKey(id)) :
                      /\ cache' = out.cache
                      /\ last' = Done("deleteProduct", idParam,
                                      IF out.thrown THEN 500 ELSE 200,
                                      IF out.thrown THEN Message("Error deleting product")
                                      ELSE Message("Product deleted successfully"),
                                      out.faults, {"db", "cache"})
                 /\ UNCHANGED nextId

\* A key reaches its TTL and the cache drops it.
Expire(k) ==
    /\ k \in DOMAIN cache
    /\ cache' = CacheDel(cache, {k})
    /\ last' = Done("expire", k, 0, Message(""), {}, {})
    /\ UNCHANGED <<products, nextId>>

(***************************************************************************)
(* The product controller, one request at a time.                          *)
(***************************************************************************)
NoRequest == Done("none", "", 0, Message(""), {}, {})

\* a slot no request occupies
IdleSlot ==
    [op |-> "none", pc |-> "idle", id |-> 0, body |-> NoBody, q |-> NoQuery,
     count |-> 0, row |-> {}, listing |-> {}]
NoneInFlight == [s \in 1..MaxInflight |-> IdleSlot]
NoKeyReq == [a |-> NoQuery, b |-> NoQuery, keyA |-> "", keyB |-> "", done |-> FALSE]

Init ==
    /\ controller \in Revisions
    /\ products = <<>>
    /\ nextId = 1
    /\ cache = <<>>
    /\ last = NoRequest
    /\ handled = 0
    /\ cartTable = <<>>
    /\ cartNextId = 1
    /\ carts = <<>>
    /\ keyReq = NoKeyReq
    /\ inflight = NoneInFlight

\* One more request is handled; the cart and the key comparison are not involved.
ProductRequest ==
    /\ handled < MaxRequests
    /\ handled' = handled + 1
    /\ UNCHANGED <<controller, keyReq, cartTable, cartNextId, carts, inflight>>

CreateProductRequest == \E b \in CreateBodies : createProduct(b) /\ ProductRequest
GetProductsRequest == \E q \in Queries : getProducts(q) /\ ProductRequest
GetProductByIdRequest == \E i \in IdParams : getProductById(i) /\ ProductRequest
UpdateProductRequest ==
    \E i \in IdParams, b \in UpdateBodies : updateProduct(i, b) /\ ProductRequest
DeleteProductRequest == \E i \in IdParams : deleteProduct(i) /\ ProductRequest
KeyExpires == \E k \in DOMAIN cache : Expire(k) /\ ProductRequest

Next ==
    \/ CreateProductRequest
    \/ GetProductsRequest
    \/ GetProductByIdRequest
    \/ UpdateProductRequest
    \/ DeleteProductRequest
    \/ KeyExpires

Spec == Init /\ [][Next]_vars


(***************************************************************************)
(* The listing cache key as a function of the request: two requests are    *)
(* drawn and their keys built.                                             *)
(***************************************************************************)
\* A sortBy and a category that contain the key's own separators.
InjectedSortBy == "name:sortOrder:" \o AscText \o ":category:x"
InjectedCategory == "x:sortOrder:" \o AscText \o ":category:c1"

KeyQueries ==
    [ page : {{}, {"2"}},
      limit : {{}, {"5"}},
      sortBy : {{}, {"name"}, {InjectedSortBy}},
      sortOrder : {{}, {"desc"}},
      category : {{}, {"c1"}, {"undefined"}, {InjectedCategory}} ]
    \cup
    { [NoQuery EXCEPT !.limit = {"500"}],
      [NoQuery EXCEPT !.limit = {"100"}],
      [NoQuery EXCEPT !.limit = {"0"}],
      [NoQuery EXCEPT !.limit = {"-5"}],
      [NoQuery EXCEPT !.page = {"0"}],
      [NoQuery EXCEPT !.page = {"-1"}],
      [NoQuery EXCEPT !.sortBy = {"colour"}],
      [NoQuery EXCEPT !.sortBy = {"created_at"}] }

InitKey ==
    /\ controller \in Revisions
    /\ products = <<>>
    /\ nextId = 1
    /\ cache = <<>>
    /\ last = NoRequest
    /\ handled = 0
    /\ cartTable = <<>>
    /\ cartNextId = 1
    /\ carts = <<>>
    /\ keyReq \in { [a |-> x, b |-> y, keyA |-> "", keyB |-> "", done |-> FALSE] :
                    x \in KeyQueries, y \in KeyQueries }
    /\ inflight = NoneInFlight

BuildKeys ==
    /\ ~keyReq.done
    /\ keyReq' = [keyReq EXCEPT !.keyA = ListingCacheKey(controller, keyReq.a),
                                !.keyB = ListingCacheKey(controller, keyReq.b),
                                !.done = TRUE]
    /\ UNCHANGED <<controller, products, nextId, cache, last, handled, cartTable,
                   cartNextId, carts, inflight>>

NextKey == BuildKeys

SpecKey == InitKey /\ [][NextKey]_vars

\* C10: the listing cache key is injective in the effective parameters
\* (page, limit, sortBy, sortOrder, category): equal parameters give equal keys and
\* parameters that differ anywhere give different keys.
C10_KeyInjective ==
    keyReq.done =>
        ( keyReq.keyA = keyReq.keyB
          <=> ListingParams(controller, keyReq.a) = ListingParams(controller, keyReq.b) )

\* C25: for every listing request the effective limit lies in 1..100 and the
\* effective page is at least 1, whatever integers the query supplies, so the
\* offset passed to the store is never negative.
C25_PaginationInRange ==
    keyReq.done =>
        \A q \in {keyReq.a, keyReq.b} :
            LET p == getPaginationParams(controller, q)
            IN  /\ p.limit \in 1..MAX_LIMIT
                /\ p.page >= 1
                /\ (p.page - 1) * p.limit >= 0

\* C26: two listing requests whose parameters are the same after defaulting,
\* clamping and the fallback of the sort column use the same cache key.
C26_EffectiveParamsShareKey ==
    keyReq.done =>
        ( ( /\ getPaginationParams(controller, keyReq.a)
                 = getPaginationParams(controller, keyReq.b)
            /\ SortColumn(ListingParams(controller, keyReq.a).sortBy)
                 = SortColumn(ListingParams(controller, keyReq.b).sortBy)
            /\ ListingParams(controller, keyReq.a).sortOrder
                 = ListingParams(controller, keyReq.b).sortOrder
            /\ keyReq.a.category = keyReq.b.category )
          => keyReq.keyA = keyReq.keyB )


(***************************************************************************)
(* Claims about the product controller, one request at a time (Spec).      *)
(***************************************************************************)
WriteOps == {"updateProduct", "deleteProduct"}
ReadOps == {"getProductById", "getProducts"}
CacheWriteFaults == {"set", "setEx", "invalidate", "del"}

\* The id a handled updateProduct or deleteProduct was addressed to.
LastWriteId ==
    IF last.op = "updateProduct"
    THEN Some(getId(last.input.id))
    ELSE Some(getId(last.input))

\* C1: after updateProduct(p) or deleteProduct(p) reported success and none of its
\* cache operations failed, the cache holds neither product:<p> nor any key
\* matching products:*, whatever listings had been cached.
C1_WriteInvalidatesAll ==
    (last.op \in WriteOps /\ last.status = 200 /\ last.faults = {})
        => /\ ProductCacheKey(LastWriteId) \notin DOMAIN cache
           /\ ListingKeys(cache) = {}

\* C3: when the cache get fails in getProductById or getProducts and the store
\* works, the caller gets what a plain miss gives: the store's row (or listing)
\* with status 200, or not-found; never a server error.
C3_GetFailureIsMiss ==
    (last.op \in ReadOps /\ "get" \in last.faults /\ "store" \notin last.faults)
        => /\ last.status \in {200, 404}
           /\ last.op = "getProductById" =>
                IF Some(getId(last.input)) \in DOMAIN products
                THEN last.status = 200 /\ last.body = products[Some(getId(last.input))]
                ELSE last.status = 404

\* C4: once the store step of a handler succeeded, a failing cache write (set,
\* setEx, the scan loop, or del of product:<id>) is swallowed: the handler still
\* reports success.
C4_CacheWriteFailureSwallowed ==
    (last.faults \cap CacheWriteFaults # {} /\ "store" \notin last.faults)
        => last.status \in {200, 201}

\* C5: a listing read answered from the cache returns the body the miss that
\* filled the entry returned: when a getProducts miss wrote the entry and the same
\* request is handled again next and hits, the two bodies are equal.
C5_HitRepeatsMiss ==
    [][ ( /\ last.op = "getProducts" /\ last.status = 200
          /\ "db" \in last.acc /\ "set" \notin last.faults
          /\ last'.op = "getProducts" /\ last'.status = 200
          /\ last'.input = last.input /\ last'.acc = {"cache"} )
        => last'.body = last.body ]_vars

\* C6: every answered listing request carries totalPages = ceil(totalCount/limit),
\* hasNext = (page < totalPages) and hasPrev = (page > 1) for the requested page,
\* and its products are the page at offset (page-1)*limit.
C6_PaginationArithmetic ==
    (last.op = "getProducts" /\ last.status = 200) =>
        LET pg == last.body.pagination
            p == ListingParams(controller, last.input)
        IN  /\ pg.page = p.page
            /\ pg.totalCount # {}
            /\ pg.totalPages = {Ceil(Some(pg.totalCount), pg.limit)}
            /\ pg.hasNext = {pg.page < Some(pg.totalPages)}
            /\ pg.hasPrev = {pg.page > 1}
            /\ Len(last.body.products)
                 = Max(0, Min(pg.limit, Some(pg.totalCount) - (pg.page - 1) * pg.limit))


\* the id path parameter of the request handled last
LastIdParam == IF last.op = "updateProduct" THEN last.input.id ELSE last.input

\* C11: getProductById, updateProduct and deleteProduct with a non-numeric id
\* answer 400 "Invalid product ID" and access neither the cache nor the store.
C11_InvalidIdShortCircuits ==
    ( /\ last.op \in {"getProductById", "updateProduct", "deleteProduct"}
      /\ getId(LastIdParam) = {} )
        => /\ last.status = 400
           /\ last.body = Message("Invalid product ID")
           /\ last.acc = {}


\* C12: after createProduct answered 201 with no cache operation failing, no
\* key matching products:* is left in the cache.
C12_CreateClearsListings ==
    (last.op = "createProduct" /\ last.status = 201 /\ last.faults = {})
        => ListingKeys(cache) = {}

\* a product was created while the cache held another product's entry, which
\* the invalidation left in place
C12_Witness ==
    /\ last.op = "createProduct"
    /\ last.status = 201
    /\ last.faults = {}
    /\ handled >= 3
    /\ ProductCacheKey(1) \in DOMAIN cache
    /\ ListingKeys(cache) = {}


\* C13: getProductById with a numeric id and no failing call.  On a hit it
\* answers the cached entity, without a store query and without a cache write.
\* On a miss it answers 404 when the store has no row of the id, and otherwise
\* writes the row under product:<id> with a TTL of 3600 seconds and answers it.
C13_GetProductByIdReadThrough ==
    [][ ( /\ last'.op = "getProductById"
          /\ getId(last'.input) # {}
          /\ last'.faults = {} )
        => LET id == Some(getId(last'.input))
               key == ProductCacheKey(id)
               hit == CacheGet(cache, key)
           IN  IF hit # {}
               THEN /\ last'.status = 200
                    /\ last'.body = Some(hit)
                    /\ "db" \notin last'.acc
                    /\ cache' = cache
               ELSE IF id \notin DOMAIN products
               THEN /\ last'.status = 404
                    /\ last'.body = Message("Product not found")
                    /\ cache' = cache
               ELSE /\ last'.status = 200
                    /\ last'.body = products[id]
                    /\ "db" \in last'.acc
                    /\ key \in DOMAIN cache'
                    /\ cache'[key] = [value |-> products[id], ttl |-> 3600]
                    /\ \A k \in DOMAIN cache \ {key} :
                          k \in DOMAIN cache' /\ cache'[k] = cache[k] ]_vars

\* a getProductById answered from the entry an earlier miss wrote
C13_Witness ==
    /\ last.op = "getProductById"
    /\ last.status = 200
    /\ last.acc = {"cache"}
    /\ last.faults = {}
    /\ ProductCacheKey(Some(getId(last.input))) \in DOMAIN cache
    /\ cache[ProductCacheKey(Some(getId(last.input)))].ttl = 3600
    /\ last.body = cache[ProductCacheKey(Some(getId(last.input)))].value


\* C15: a getProductById in which no call fails answers what the store holds,
\* the current row of the id or not-found, whatever cache failures earlier
\* requests swallowed: it is the answer the request gets when every earlier
\* invalidation succeeded.
C15_ReadsUnaffectedByCacheFailure ==
    [][ ( /\ last'.op = "getProductById"
          /\ getId(last'.input) # {}
          /\ last'.faults = {} )
        => IF Some(getId(last'.input)) \in DOMAIN products
           THEN last'.status = 200 /\ last'.body = products[Some(getId(last'.input))]
           ELSE last'.status = 404 ]_vars

C33_ReadYourWrites ==
    [][ ( /\ last.op \in {"updateProduct", "deleteProduct"}
          /\ last.status = 200
          /\ last.faults = {}
          /\ last'.op = "getProductById"
          /\ handled' = handled + 1
          /\ last'.faults = {}
          /\ getId(last'.input) = getId(LastIdParam) )
        => IF last.op = "updateProduct"
           THEN /\ last'.status = 200
                /\ last'.body = last.body
                /\ last'.body = products[Some(getId(LastIdParam))]
                /\ \A f \in UpdatableFields \ {"price"} :
                       \A v \in last.input.body[f] : last'.body[f] = v
                /\ \A v \in last.input.body.price : last'.body.price = Some(ParseIntStr(v))
           ELSE /\ last'.status = 404
                /\ Some(getId(LastIdParam)) \notin DOMAIN products ]_vars

\* a product was created, its price updated and the product read back
C33_Witness ==
    /\ handled = 3
    /\ last.op = "getProductById"
    /\ last.status = 200
    /\ last.faults = {}
    /\ last.body.price = 7
    /\ last.body = products[Some(getId(LastIdParam))]

\* C39: the scan-and-delete loop ends once the scan has returned cursor "0",
\* and then no listing key is left.  A cache error ends it at once: only listing
\* keys (and, after an update or delete, the key of the product written) are
\* gone, every other key survives with its value, and the write that called the
\* loop still reports success.
C39_ScanLoopStopsAtFirstError ==
    [][ ( /\ last'.op \in {"createProduct", "updateProduct", "deleteProduct"}
          /\ "cache" \in last'.acc
          /\ "del" \notin last'.faults
          /\ last'.op = "createProduct" \/ controller = "part_004" )
        => LET written == IF last'.op = "createProduct" THEN {}
                          ELSE {ProductCacheKey(Some(getId(LastIdParam')))}
           IN  /\ last'.status = IF last'.op = "createProduct" THEN 201 ELSE 200
               /\ last'.op = "createProduct" => nextId \in DOMAIN products'
               /\ last'.op = "deleteProduct"
                    => Some(getId(LastIdParam')) \notin DOMAIN products'
               /\ "invalidate" \notin last'.faults => ListingKeys(cache') = {}
               /\ DOMAIN cache' \subseteq DOMAIN cache
               /\ DOMAIN cache \ DOMAIN cache' \subseteq ListingKeys(cache) \cup written
               /\ \A k \in DOMAIN cache' : cache'[k] = cache[k] ]_vars

\* a product was created while the scan loop failed: a listing key and the key
\* of a product are still cached
C39_Witness ==
    /\ last.op = "createProduct"
    /\ last.status = 201
    /\ "invalidate" \in last.faults
    /\ ListingKeys(cache) # {}
    /\ DOMAIN cache \ ListingKeys(cache) # {}


(***************************************************************************)
(* CartCtrl (src/unnamed/part_003): redis hashes and cartTable.            *)
(*                                                                         *)
(* Prices are whole numbers.  A number that may be NaN is a set: {} is NaN *)
(* (JSON null in a snapshot, 'NaN' in a decimal column).                   *)
(***************************************************************************)
CART_TTL == 2592000

\* a * b where either may be undefined or NaN
Times(oa, ob) == IF oa = {} \/ ob = {} THEN {} ELSE {Some(oa) * Some(ob)}

\* `cart:${user_id || "guest"}`
\* one hash for every owner
AnyCartKey(user_id) == "cart:guest"

CartKey(user_id) == "cart:" \o OrString(user_id, "guest")
GuestCartKey == "cart:guest"

\* Number(user_id): NaN for undefined
NumberOf(user_id) == parseInt(user_id)

\* hGetAll: the fields of a hash, none for a missing key
HGetAll(c, key) == IF key \in DOMAIN c THEN c[key].fields ELSE <<>>

\* an hGet that answers with a line item of quantity 1 for a missing field
HGetDefault(c, key, field) ==
    IF key \in DOMAIN c /\ field \in DOMAIN c[key].fields
    THEN {c[key].fields[field]}
    ELSE {[productId |-> {1}, quantity |-> 1, price |-> {10}, unit_price |-> {10},
           expires_at |-> "now+30d", userId |-> {}, textual |-> {}]}

\* hGet: one field, or null
HGet(c, key, field) ==
    IF key \in DOMAIN c /\ field \in DOMAIN c[key].fields
    THEN {c[key].fields[field]}
    ELSE {}

\* an hSet that is acknowledged and not applied
HSetLost(c, key, field, val) == c

\* hSet: a new hash has no expiry, an existing one keeps its own
HSet(c, key, field, val) ==
    LET old == HGetAll(c, key)
        fields == [f \in DOMAIN old \cup {field} |-> IF f = field THEN val ELSE old[f]]
        ttl == IF key \in DOMAIN c THEN c[key].ttl ELSE {}
    IN  [k \in DOMAIN c \cup {key} |->
            IF k = key THEN [fields |-> fields, ttl |-> ttl] ELSE c[k]]

\* expire: sets the expiry of an existing key
ExpireKey(c, key, ttl) ==
    [k \in DOMAIN c |-> IF k = key THEN [c[k] EXCEPT !.ttl = {ttl}] ELSE c[k]]

\* a del that is acknowledged and not applied
DelKeyLost(c, key) == c

\* del of a key
DelKey(c, key) == [k \in DOMAIN c \ {key} |-> c[k]]

\* an hDel that removes nothing
HDelLost(c, key, field) == c

\* hDel: a hash that loses its last field is gone
HDel(c, key, field) ==
    IF key \notin DOMAIN c THEN c
    ELSE LET left == [f \in DOMAIN c[key].fields \ {field} |-> c[key].fields[f]]
         IN  IF DOMAIN left = {}
             THEN DelKey(c, key)
             ELSE [c EXCEPT ![key].fields = left]

\* rows of cartTable matching eq(userId, n) and eq(productId, p); n = {} is NULL
\* in the row and NaN in the condition, and no row compares equal to NaN
RowIds(t, ownerNumber, productId) ==
    {i \in DOMAIN t : ownerNumber # {} /\ t[i].userId = ownerNumber
                      /\ t[i].productId = productId}

\* rows matching isNull(userId) and eq(productId, p)
GuestRowIds(t, productId) ==
    {i \in DOMAIN t : t[i].userId = {} /\ t[i].productId = productId}

\* unique("unique_cart_item").on(productId, userId): NULL owners never conflict
UniqueViolated(t) ==
    \E i, j \in DOMAIN t :
        /\ i # j
        /\ t[i].userId # {}
        /\ t[i].userId = t[j].userId
        /\ t[i].productId = t[j].productId


(***************************************************************************)
(* CartCtrl.addCartItem                                                    *)
(***************************************************************************)
\* the cartItem snapshot written to the hash.  textual names the fields a
\* snapshot holds as decimal strings (a row read from the store holds price and
\* unit_price so); the snapshot built here holds numbers.
CartItem(b) ==
    [ productId |-> parseInt(b.productId),
      quantity |-> OrNumber(b.quantity, 1),
      price |-> ParseIntStr(Some(b.price)),
      unit_price |-> ParseIntStr(Some(b.price)),
      expires_at |-> IF b.expires_at = {} THEN "now+30d" ELSE Some(b.expires_at),
      userId |-> b.user_id,
      textual |-> {} ]

\* the row db.insert(cartTable).values(...) adds
CartRow(id, b) ==
    [ id |-> id,
      productId |-> Some(parseInt(b.productId)),
      quantity |-> OrNumber(b.quantity, 1),
      price |-> ParseIntStr(Some(b.price)),
      unit_price |-> ParseIntStr(Some(b.price)),
      expires_at |-> Some(b.expires_at),
      userId |-> NumberOf(b.user_id) ]

InsertRow(t, row) == [i \in DOMAIN t \cup {row.id} |-> IF i = row.id THEN row ELSE t[i]]

\* The insert is rejected when expires_at is absent (new Date(undefined) is an
\* Invalid Date, whose serialization throws), when the product does not exist
\* (foreign key), or when the owner already has a row for the product.
InsertRejected(t, b) ==
    IF b.expires_at = {} \/ parseInt(b.productId) = {}
    THEN TRUE
    ELSE \/ Some(parseInt(b.productId)) \notin DOMAIN products
         \/ UniqueViolated(InsertRow(t, CartRow(cartNextId, b)))

addCartItem(b) ==
    LET cartKey == CartKey(b.user_id)
        field == Some(b.productId)
        written == HSet(carts, cartKey, field, CartItem(b))
        error == [error |-> "Internal server error."]
    IN  \/ /\ b.productId \in {{}, {""}} \/ b.price \in {{}, {""}}
           /\ last' = Done("addCartItem", b, 400,
                           Message("Product ID and price are required."), {}, {})
           /\ UNCHANGED <<carts, cartTable, cartNextId>>
        \/ /\ ~(b.productId \in {{}, {""}} \/ b.price \in {{}, {""}})
           /\ \/ /\ last' = Done("addCartItem", b, 500, error, {"hSet"}, {"cache"})
                 /\ UNCHANGED <<carts, cartTable, cartNextId>>
              \/ /\ carts' = written
                 /\ last' = Done("addCartItem", b, 500, error, {"expire"}, {"cache"})
                 /\ UNCHANGED <<cartTable, cartNextId>>
              \/ /\ carts' = ExpireKey(written, cartKey, CART_TTL)
                 /\ last' = Done("addCartItem", b, 500, error, {"store"}, {"cache", "db"})
                 /\ UNCHANGED <<cartTable, cartNextId>>
              \/ /\ InsertRejected(cartTable, b)
                 /\ carts' = ExpireKey(written, cartKey, CART_TTL)
                 /\ last' = Done("addCartItem", b, 500, error, {"rejected"}, {"cache", "db"})
                 /\ UNCHANGED <<cartTable, cartNextId>>
              \/ /\ ~InsertRejected(cartTable, b)
                 /\ carts' = ExpireKey(written, cartKey, CART_TTL)
                 /\ cartTable' = InsertRow(cartTable, CartRow(cartNextId, b))
                 /\ cartNextId' = cartNextId + 1
                 /\ last' = Done("addCartItem", b, 200,
                                 [message |-> "Product added to cart.", cartItem |-> CartItem(b)],
                                 {}, {"cache", "db"})

(***************************************************************************)
(* CartCtrl.updateCartItem                                                 *)
(***************************************************************************)
\* set(values) on the rows ids of cartTable
UpdateRows(t, ids, quantity, price) ==
    [i \in DOMAIN t |-> IF i \in ids
                        THEN [t[i] EXCEPT !.quantity = quantity, !.price = price]
                        ELSE t[i]]

DeleteRows(t, ids) == [i \in DOMAIN t \ ids |-> t[i]]

\* parseFloat(itemData.unit_price || itemData.price / currentQuantity); the
\* quotient is taken for whole-number prices that the quantity divides
UnitPriceOf(itemData) ==
    IF itemData.unit_price \in {{}, {0}}
    THEN IF itemData.price = {} THEN {} ELSE {Some(itemData.price) \div itemData.quantity}
    ELSE itemData.unit_price

\* The store's answer to a condition on userId = Number(user_id).  For the
\* guest owner the number is NaN: the store either rejects the statement or
\* matches no row with it.
StoreOutcomes(user_id) ==
    IF NumberOf(user_id) = {} THEN {"rejected", "done"} ELSE {"done"}

updateCartItem(productId, action, user_id) ==
    LET cartKey == CartKey(user_id)
        input == [productId |-> productId, action |-> action, user_id |-> user_id]
        existingItem == HGet(carts, cartKey, productId)
        itemData == Some(existingItem)
        newQuantity == IF action = {"increment"}
                       THEN itemData.quantity + 1
                       ELSE itemData.quantity - 1
        newTotalPrice == Times(UnitPriceOf(itemData), {newQuantity})
        ids == RowIds(cartTable, NumberOf(user_id), Some(parseInt({productId})))
        error == Message("Error updating cart item quantity.")
    IN  \/ /\ action \notin {{"increment"}, {"decrement"}}
           /\ last' = Done("updateCartItem", input, 400,
                           Message("Valid action (increment/decrement) is required."), {}, {})
           /\ UNCHANGED <<carts, cartTable, cartNextId>>
        \/ /\ action \in {{"increment"}, {"decrement"}}
           /\ UNCHANGED cartNextId
           /\ \/ /\ last' = Done("updateCartItem", input, 500, error, {"hGet"}, {"cache"})
                 /\ UNCHANGED <<carts, cartTable>>
              \/ /\ existingItem = {}
                 /\ last' = Done("updateCartItem", input, 404,
                                 Message("Product not found in cart."), {}, {"cache"})
                 /\ UNCHANGED <<carts, cartTable>>
              \* the quantity reaches zero: the item is removed
              \/ /\ existingItem # {}
                 /\ action = {"decrement"}
                 /\ newQuantity <= 0
                 /\ \/ /\ last' = Done("updateCartItem", input, 500, error, {"hDel"}, {"cache"})
                       /\ UNCHANGED <<carts, cartTable>>
                    \/ /\ carts' = HDel(carts, cartKey, productId)
                       /\ last' = Done("updateCartItem", input, 500, error, {"store"},
                                       {"cache", "db"})
                       /\ UNCHANGED cartTable
                    \/ /\ carts' = HDel(carts, cartKey, productId)
                       /\ \E outcome \in StoreOutcomes(user_id) :
                            IF outcome = "rejected"
                            THEN /\ last' = Done("updateCartItem", input, 500, error,
                                                 {"rejected"}, {"cache", "db"})
                                 /\ UNCHANGED cartTable
                            ELSE /\ cartTable' = DeleteRows(cartTable, ids)
                                 /\ last' = Done("updateCartItem", input, 200,
                                                 [message |-> "Item removed from cart.",
                                                  productId |-> parseInt({productId}),
                                                  action |-> "removed"],
                                                 {}, {"cache", "db"})
              \* the new quantity and line total are written back
              \/ /\ existingItem # {}
                 /\ ~(action = {"decrement"} /\ newQuantity <= 0)
                 /\ LET updated == HSet(carts, cartKey, productId,
                                        [itemData EXCEPT !.quantity = newQuantity,
                                                         !.price = newTotalPrice,
                                                         !.textual = @ \ {"price"}])
                    IN \/ /\ last' = Done("updateCartItem", input, 500, error, {"hSet"},
                                          {"cache"})
                          /\ UNCHANGED <<carts, cartTable>>
                       \/ /\ carts' = updated
                          /\ last' = Done("updateCartItem", input, 500, error, {"store"},
                                          {"cache", "db"})
                          /\ UNCHANGED cartTable
                       \/ /\ carts' = updated
                          /\ \E outcome \in StoreOutcomes(user_id) :
                               IF outcome = "rejected"
                               THEN /\ last' = Done("updateCartItem", input, 500, error,
                                                    {"rejected"}, {"cache", "db"})
                                    /\ UNCHANGED cartTable
                               ELSE /\ cartTable' = UpdateRows(cartTable, ids, newQuantity,
                                                               newTotalPrice)
                                    /\ last' = Done("updateCartItem", input, 200,
                                                    [message |-> "Cart item quantity updated.",
                                                     productId |-> parseInt({productId}),
                                                     newQuantity |-> newQuantity,
                                                     newTotalPrice |-> newTotalPrice,
                                                     action |-> "updated"],
                                                    {}, {"cache", "db"})


(***************************************************************************)
(* CartCtrl.mergeCarts                                                     *)
(***************************************************************************)
\* every order in which Object.entries may present the fields S
Orders(S) ==
    { sq \in [1..Cardinality(S) -> S] :
        \A i, j \in 1..Cardinality(S) : i # j => sq[i] # sq[j] }

\* rows ids re-pointed to owner n
RepointRows(t, ids, n) ==
    [i \in DOMAIN t |-> IF i \in ids THEN [t[i] EXCEPT !.userId = n] ELSE t[i]]

\* One pass of the loop body for a guest entry: the hash write, then the store
\* write.  userItems is the user's hash as read before the loop.
MergeEntry(c, t, userKey, user_id, field, guestItem, userItems) ==
    IF field \in DOMAIN userItems
    THEN LET userItem == userItems[field]
             newQuantity == userItem.quantity + guestItem.quantity
             \* userItem.unitPrice: the snapshot has unit_price, no unitPrice
             newPrice == Times(Field(userItem, "unitPrice"), {newQuantity})
         IN  [ carts |-> HSet(c, userKey, field,
                              [userItem EXCEPT !.quantity = newQuantity,
                                               !.price = newPrice,
                                               !.textual = @ \ {"price"}]),
               table |-> UpdateRows(t, RowIds(t, NumberOf(user_id),
                                              Some(parseInt({field}))),
                                    newQuantity, newPrice) ]
    ELSE [ carts |-> HSet(c, userKey, field, guestItem),
           table |-> RepointRows(t, GuestRowIds(t, Some(parseInt({field}))),
                                 NumberOf(user_id)) ]

\* The loop from entry i of order on.  stopAt names the entry at which a cache
\* or store call throws (0: none); half tells whether that entry's hash write
\* had been done.  A re-pointing that breaks the unique constraint is rejected
\* by the store and throws as well.
RECURSIVE MergeFrom(_, _, _, _, _)
MergeFrom(order, i, c, t, ctx) ==
    IF i > Len(order)
    THEN [carts |-> c, table |-> t, thrown |-> FALSE, faults |-> {}]
    ELSE LET e == MergeEntry(c, t, ctx.userKey, ctx.user_id, order[i],
                             ctx.guestItems[order[i]], ctx.userItems)
         IN  IF ctx.stopAt = i
             THEN [carts |-> IF ctx.half THEN e.carts ELSE c, table |-> t,
                   thrown |-> TRUE,
                   faults |-> IF ctx.half THEN {"store"} ELSE {"hSet"}]
             ELSE IF UniqueViolated(e.table)
             THEN [carts |-> e.carts, table |-> t, thrown |-> TRUE,
                   faults |-> {"rejected"}]
             ELSE MergeFrom(order, i + 1, e.carts, e.table, ctx)

\* mergeCarts without the early return on an empty guest hash: the loop runs
\* over no entries, the guest key is deleted and the merge is reported
MergeEmptyGuestFallsThrough(user_id) ==
    /\ last' = Done("mergeCarts", user_id, 200, Message("Carts merged successfully"), {},
                    {"cache", "db"})
    /\ carts' = DelKey(carts, GuestCartKey)
    /\ UNCHANGED <<cartTable, cartNextId>>

\* guestItems is empty: nothing to merge
MergeEmptyGuest(user_id) ==
    /\ last' = Done("mergeCarts", user_id, 200, Message("No items to merge"), {}, {"cache"})
    /\ UNCHANGED <<carts, cartTable, cartNextId>>

mergeCarts(user_id) ==
    LET userCartKey == CartKey(user_id)
        guestItems == HGetAll(carts, GuestCartKey)
        userItems == HGetAll(carts, userCartKey)
        error == [error |-> "Internal server error."]
    IN  \/ /\ user_id \in {{}, {""}}
           /\ last' = Done("mergeCarts", user_id, 400, Message("User ID are required"), {}, {})
           /\ UNCHANGED <<carts, cartTable, cartNextId>>
        \/ /\ user_id \notin {{}, {""}}
           /\ last' = Done("mergeCarts", user_id, 500, error, {"hGetAll"}, {"cache"})
           /\ UNCHANGED <<carts, cartTable, cartNextId>>
        \/ /\ user_id \notin {{}, {""}}
           /\ DOMAIN guestItems = {}
           /\ MergeEmptyGuest(user_id)
        \/ /\ user_id \notin {{}, {""}}
           /\ DOMAIN guestItems # {}
           /\ UNCHANGED cartNextId
           /\ \E order \in Orders(DOMAIN guestItems),
                 stopAt \in 0..Cardinality(DOMAIN guestItems),
                 half \in BOOLEAN, delFails \in BOOLEAN :
                LET m == MergeFrom(order, 1, carts, cartTable,
                                   [userKey |-> userCartKey, user_id |-> user_id,
                                    guestItems |-> guestItems, userItems |-> userItems,
                                    stopAt |-> stopAt, half |-> half])
                IN  /\ cartTable' = m.table
                    /\ IF m.thrown
                       THEN /\ carts' = m.carts
                            /\ last' = Done("mergeCarts", user_id, 500, error, m.faults,
                                            {"cache", "db"})
                       ELSE IF delFails
                       THEN /\ carts' = m.carts
                            /\ last' = Done("mergeCarts", user_id, 500, error, {"del"},
                                            {"cache", "db"})
                       ELSE /\ carts' = DelKey(m.carts, GuestCartKey)
                            /\ last' = Done("mergeCarts", user_id, 200,
                                            Message("Carts merged successfully"), {},
                                            {"cache", "db"})

(***************************************************************************)
(* CartCtrl.retrieveCartItems, removeCartItem and clearCart                *)
(***************************************************************************)
\* rows of cartTable matching eq(userId, n); no row compares equal to NaN
OwnerRows(t, ownerNumber) ==
    {i \in DOMAIN t : ownerNumber # {} /\ t[i].userId = ownerNumber}

\* the hash after hSet(cartKey, item.productId.toString(), JSON.stringify(item))
\* for the rows ids, in any order: the fields are distinct or hold equal rows.
\* A selected row carries its decimal columns as strings.
RECURSIVE Repopulate(_, _, _, _)
Repopulate(c, key, t, ids) ==
    IF ids = {} THEN c
    ELSE LET i == CHOOSE j \in ids : \A k \in ids : j <= k
             item == [f \in DOMAIN t[i] \cup {"textual"} |->
                        IF f = "textual" THEN {"price", "unit_price"} ELSE t[i][f]]
         IN  Repopulate(HSet(c, key, ToString(t[i].productId), item), key, t, ids \ {i})

\* (total, item) => total + item.price over parsed snapshots.  A total is
\* [number |-> n] or, once a price held as a string was added, [string |-> the
\* pieces concatenated]; a null price adds 0 to a number.
JsPlus(total, item) ==
    IF "number" \in DOMAIN total /\ "price" \notin item.textual
    THEN [number |-> {Some(total.number) + (IF item.price = {} THEN 0 ELSE Some(item.price))}]
    ELSE [string |-> (IF "number" \in DOMAIN total THEN <<total.number>> ELSE total.string)
                     \o <<item.price>>]

\* parsedItems.reduce(..., 0) over the fields fs, which Object.values presents
\* in ascending order of the integer keys
RECURSIVE CartTotal(_, _, _)
CartTotal(items, fs, total) ==
    IF fs = {} THEN total
    ELSE LET f == CHOOSE g \in fs :
                    \A h \in fs : Some(parseInt({g})) <= Some(parseInt({h}))
         IN  CartTotal(items, fs \ {f}, JsPlus(total, items[f]))

\* reduce((count, item) => count + item.quantity, 0) over the entries ids of items
RECURSIVE ItemCount(_, _)
ItemCount(items, ids) ==
    IF ids = {} THEN 0
    ELSE LET i == CHOOSE j \in ids : TRUE
         IN  items[i].quantity + ItemCount(items, ids \ {i})

\* dbItems.reduce((total, item) => total + parseFloat(item.price), 0): NaN once
\* a row holds the price 'NaN'
RECURSIVE DbTotal(_, _)
DbTotal(t, ids) ==
    IF ids = {} THEN {0}
    ELSE LET i == CHOOSE j \in ids : TRUE
         IN  IF t[i].price = {} \/ DbTotal(t, ids \ {i}) = {}
             THEN {}
             ELSE {Some(t[i].price) + Some(DbTotal(t, ids \ {i}))}

retrieveCartItems(user_id) ==
    LET cartKey == CartKey(user_id)
        cartItems == HGetAll(carts, cartKey)
        dbItems == OwnerRows(cartTable, NumberOf(user_id))
        error == [error |-> "Internal server error."]
    IN  /\ UNCHANGED <<cartTable, cartNextId>>
        /\ \/ /\ last' = Done("retrieveCartItems", user_id, 500, error, {"hGetAll"}, {"cache"})
              /\ UNCHANGED carts
           \/ /\ DOMAIN cartItems # {}
              /\ last' = Done("retrieveCartItems", user_id, 200,
                              [message |-> "Cart items retrieved from cache.",
                               items |-> cartItems,
                               total |-> CartTotal(cartItems, DOMAIN cartItems,
                                                   [number |-> {0}]),
                               itemCount |-> ItemCount(cartItems, DOMAIN cartItems)],
                              {}, {"cache"})
              /\ UNCHANGED carts
           \/ /\ DOMAIN cartItems = {}
              /\ \/ /\ last' = Done("retrieveCartItems", user_id, 500, error, {"store"},
                                    {"cache", "db"})
                    /\ UNCHANGED carts
                 \/ /\ "rejected" \in StoreOutcomes(user_id)
                    /\ last' = Done("retrieveCartItems", user_id, 500, error, {"rejected"},
                                    {"cache", "db"})
                    /\ UNCHANGED carts
                 \* an hSet throws after the rows D were written
                 \/ \E D \in SUBSET dbItems :
                      /\ D # dbItems
                      /\ carts' = Repopulate(carts, cartKey, cartTable, D)
                      /\ last' = Done("retrieveCartItems", user_id, 500, error, {"hSet"},
                                      {"cache", "db"})
                 \/ /\ carts' = Repopulate(carts, cartKey, cartTable, dbItems)
                    /\ last' = Done("retrieveCartItems", user_id, 500, error, {"expire"},
                                    {"cache", "db"})
                 \/ /\ carts' = ExpireKey(Repopulate(carts, cartKey, cartTable, dbItems),
                                          cartKey, CART_TTL)
                    /\ last' = Done("retrieveCartItems", user_id, 200,
                                    [message |-> "Cart items retrieved from database.",
                                     items |-> [i \in dbItems |-> cartTable[i]],
                                     total |-> DbTotal(cartTable, dbItems),
                                     itemCount |-> ItemCount(cartTable, dbItems)],
                                    {}, {"cache", "db"})

\* hDel, then the store statement on userId = Number(user_id); deleted is the
\* table once the statement ran
RemoveFromBoth(op, input, user_id, cleared, deleted, fault, message) ==
    LET error == [error |-> "Internal server error."]
    IN  /\ UNCHANGED cartNextId
        /\ \/ /\ last' = Done(op, input, 500, error, {fault}, {"cache"})
              /\ UNCHANGED <<carts, cartTable>>
           \/ /\ carts' = cleared
              /\ last' = Done(op, input, 500, error, {"store"}, {"cache", "db"})
              /\ UNCHANGED cartTable
           \/ /\ carts' = cleared
              /\ \E outcome \in StoreOutcomes(user_id) :
                   IF outcome = "rejected"
                   THEN /\ last' = Done(op, input, 500, error, {"rejected"}, {"cache", "db"})
                        /\ UNCHANGED cartTable
                   ELSE /\ cartTable' = deleted
                        /\ last' = Done(op, input, 200, Message(message), {},
                                        {"cache", "db"})

removeCartItem(productId, user_id) ==
    RemoveFromBoth("removeCartItem", [productId |-> productId, user_id |-> user_id],
                   user_id, HDel(carts, CartKey(user_id), productId),
                   DeleteRows(cartTable, RowIds(cartTable, NumberOf(user_id),
                                                Some(parseInt({productId})))),
                   "hDel", "Cart item deleted.")

clearCart(user_id) ==
    RemoveFromBoth("clearCart", user_id, user_id, DelKey(carts, CartKey(user_id)),
                   DeleteRows(cartTable, OwnerRows(cartTable, NumberOf(user_id))),
                   "del", "Cart cleared successfully.")

(***************************************************************************)
(* CartCtrl.getCartTotal                                                   *)
(***************************************************************************)
\* a fallback that writes the rows it read into the hash
FallbackRepopulates(c, key, t, ids) == Repopulate(c, key, t, ids)

\* the hash after the fallback to the store: the rows are summed, not written
FallbackHash(c, key, t, ids) == c

getCartTotal(user_id) ==
    LET cartKey == CartKey(user_id)
        cartItems == HGetAll(carts, cartKey)
        dbItems == OwnerRows(cartTable, NumberOf(user_id))
        error == [error |-> "Internal server error."]
    IN  /\ UNCHANGED <<cartTable, cartNextId>>
        /\ \/ /\ last' = Done("getCartTotal", user_id, 500, error, {"hGetAll"}, {"cache"})
              /\ UNCHANGED carts
           \/ /\ DOMAIN cartItems # {}
              /\ last' = Done("getCartTotal", user_id, 200,
                              [message |-> "Cart total calculated.",
                               total |-> CartTotal(cartItems, DOMAIN cartItems,
                                                   [number |-> {0}]),
                               itemCount |-> ItemCount(cartItems, DOMAIN cartItems)],
                              {}, {"cache"})
              /\ UNCHANGED carts
           \/ /\ DOMAIN cartItems = {}
              /\ \/ /\ last' = Done("getCartTotal", user_id, 500, error, {"store"},
                                    {"cache", "db"})
                    /\ UNCHANGED carts
                 \/ /\ "rejected" \in StoreOutcomes(user_id)
                    /\ last' = Done("getCartTotal", user_id, 500, error, {"rejected"},
                                    {"cache", "db"})
                    /\ UNCHANGED carts
                 \/ /\ carts' = FallbackHash(carts, cartKey, cartTable, dbItems)
                    /\ last' = Done("getCartTotal", user_id, 200,
                                    [message |-> "Cart total calculated.",
                                     total |-> DbTotal(cartTable, dbItems),
                                     itemCount |-> ItemCount(cartTable, dbItems)],
                                    {}, {"cache", "db"})

\* a cart hash reaches its expiry
CartExpires(key) ==
    /\ key \in DOMAIN carts
    /\ carts[key].ttl # {}
    /\ carts' = DelKey(carts, key)
    /\ last' = Done("expire", key, 0, Message(""), {}, {})
    /\ UNCHANGED <<cartTable, cartNextId>>

(***************************************************************************)
(* The cart controller, one request at a time.  The products the carts     *)
(* refer to exist.                                                         *)
(***************************************************************************)
SeedProducts ==
    [ i \in 1..2 |->
        [ id |-> i, name |-> "anvil", description |-> "d", price |-> 10,
          category |-> "c1", inStock |-> TRUE, created_at |-> i ] ]

UserIds == {{}, {"1"}}
ProductParams == {"1", "2"}

AddBodies ==
    [ productId : {{"1"}, {"2"}},
      quantity : {{}, {2}},
      price : {{"10"}},
      expires_at : {{"2030-01-01"}},
      user_id : UserIds ]
    \cup
    { [productId |-> {"1"}, quantity |-> {}, price |-> {"10"}, expires_at |-> {},
       user_id |-> {}],
      [productId |-> {"1"}, quantity |-> {}, price |-> {}, expires_at |-> {},
       user_id |-> {}] }

Actions == {{}, {"increment"}, {"decrement"}}

InitCart ==
    /\ controller = "part_004"
    /\ products = SeedProducts
    /\ nextId = 3
    /\ cache = <<>>
    /\ last = NoRequest
    /\ handled = 0
    /\ cartTable = <<>>
    /\ cartNextId = 1
    /\ carts = <<>>
    /\ keyReq = NoKeyReq
    /\ inflight = NoneInFlight

CartRequest ==
    /\ handled < MaxCartRequests
    /\ handled' = handled + 1
    /\ UNCHANGED <<controller, products, nextId, cache, keyReq, inflight>>

AddCartItemRequest == \E b \in AddBodies : addCartItem(b) /\ CartRequest
UpdateCartItemRequest ==
    \E p \in ProductParams, a \in Actions, u \in UserIds :
        updateCartItem(p, a, u) /\ CartRequest
MergeCartsRequest == \E u \in UserIds : mergeCarts(u) /\ CartRequest
CartKeyExpires == \E k \in DOMAIN carts : CartExpires(k) /\ CartRequest

NextCart ==
    \/ AddCartItemRequest
    \/ UpdateCartItemRequest
    \/ MergeCartsRequest
    \/ CartKeyExpires
    \/ \E u \in UserIds : retrieveCartItems(u) /\ CartRequest
    \/ \E p \in ProductParams, u \in UserIds : removeCartItem(p, u) /\ CartRequest
    \/ \E u \in UserIds : clearCart(u) /\ CartRequest
    \/ \E u \in UserIds : getCartTotal(u) /\ CartRequest

SpecCart == InitCart /\ [][NextCart]_vars


(***************************************************************************)
(* Cart claims.                                                            *)
(***************************************************************************)
\* calls of the cache or the store that were made to throw in the last request
InjectedFaults == {"store", "hGet", "hGetAll", "hSet", "hDel", "expire", "del"}

\* the persistent rows of an owner's line item: NULL userId for the guest
OwnerRowIds(t, user_id, productId) ==
    IF user_id \in {{}, {""}}
    THEN GuestRowIds(t, productId)
    ELSE RowIds(t, NumberOf(user_id), productId)

\* C7: for every owner, user or guest, a decrement of a line item of quantity 1
\* in which no cache or store call was made to throw removes the item from the
\* owner's hash, removes the owner's persistent row of the product and reports
\* action "removed".
C7_DecrementAtOneRemoves ==
    [][ ( /\ last'.op = "updateCartItem"
          /\ last'.input.action = {"decrement"}
          /\ last'.faults \cap InjectedFaults = {}
          /\ HGet(carts, CartKey(last'.input.user_id), last'.input.productId) # {}
          /\ Some(HGet(carts, CartKey(last'.input.user_id),
                       last'.input.productId)).quantity = 1 )
        => ( /\ last'.status = 200
             /\ Field(last'.body, "action") = {"removed"}
             /\ HGet(carts', CartKey(last'.input.user_id), last'.input.productId) = {}
             /\ OwnerRowIds(cartTable', last'.input.user_id,
                            Some(parseInt({last'.input.productId}))) = {} ) ]_vars

\* C8: a merge that succeeds where the guest hash holds product A with quantity
\* g and the user's hash holds A with quantity u and unit price P leaves
\* quantity u+g and line total (u+g)*P for A in the user's hash and in the
\* user's persistent row of A, and the guest key is gone.
C8_MergeOverlapAdds ==
    [][ ( /\ last'.op = "mergeCarts"
          /\ last'.status = 200
          /\ last'.body = Message("Carts merged successfully") )
        => \A A \in DOMAIN HGetAll(carts, GuestCartKey)
                    \cap DOMAIN HGetAll(carts, CartKey(last'.input)) :
             LET u == HGetAll(carts, CartKey(last'.input))[A].quantity
                 g == HGetAll(carts, GuestCartKey)[A].quantity
                 P == HGetAll(carts, CartKey(last'.input))[A].unit_price
                 merged == HGet(carts', CartKey(last'.input), A)
             IN  /\ merged # {}
                 /\ Some(merged).quantity = u + g
                 /\ Some(merged).price = Times(P, {u + g})
                 /\ \A i \in RowIds(cartTable', NumberOf(last'.input),
                                    Some(parseInt({A}))) :
                        /\ cartTable'[i].quantity = u + g
                        /\ cartTable'[i].price = Times(P, {u + g})
                 /\ GuestCartKey \notin DOMAIN carts' ]_vars

\* C9: mergeCarts for a user, with the guest hash empty and no cache call made
\* to throw, answers 200 "No items to merge" and leaves every cart hash and
\* every cart row as it was.
C9_EmptyGuestMergeIsNoOp ==
    [][ ( /\ last'.op = "mergeCarts"
          /\ last'.input \notin {{}, {""}}
          /\ last'.faults = {}
          /\ DOMAIN HGetAll(carts, GuestCartKey) = {} )
        => ( /\ last'.status = 200
             /\ last'.body = Message("No items to merge")
             /\ carts' = carts
             /\ cartTable' = cartTable ) ]_vars

\* an empty guest cart was merged into a user's cart that has a hash and a row
C9_Witness ==
    /\ last.op = "mergeCarts"
    /\ last.input = {"1"}
    /\ last.status = 200
    /\ last.body = Message("No items to merge")
    /\ GuestCartKey \notin DOMAIN carts
    /\ CartKey({"1"}) \in DOMAIN carts
    /\ RowIds(cartTable, {1}, 1) # {}


\* C14: a cart operation in which cache calls failed and the store did not is
\* not answered with a server error.
C14_CartCacheFailureRecovered ==
    ( /\ last.op \in {"addCartItem", "retrieveCartItems", "updateCartItem",
                      "removeCartItem", "clearCart", "mergeCarts"}
      /\ last.faults # {}
      /\ last.faults \subseteq {"hSet", "hGet", "hGetAll", "hDel", "expire", "del"} )
        => last.status < 500

\* every owner's hash that exists holds a field for each of the owner's rows
C17_HashCoversRows ==
    \A u \in UserIds :
        CartKey(u) \in DOMAIN carts =>
            \A i \in DOMAIN cartTable :
                cartTable[i].userId = NumberOf(u) =>
                    ToString(cartTable[i].productId) \in DOMAIN carts[CartKey(u)].fields

\* C17: whenever an owner's cart hash is non-empty it holds an entry for every
\* persistent line item of that owner; no step in which every cache and store
\* call succeeded, the expiry of a hash included, ends this.
C17_NonEmptyHashMirrorsStore ==
    [][ (C17_HashCoversRows /\ last'.faults = {}) => C17_HashCoversRows' ]_vars

\* C18: a non-empty cart hash never exists without an expiry: from a state in
\* which every hash has one, a request in which every cache and store call
\* succeeded leaves every hash with the 30-day expiry.
C18_HashAlwaysExpires ==
    [][ ( /\ \A k \in DOMAIN carts : carts[k].ttl # {}
          /\ last'.faults = {} )
        => \A k \in DOMAIN carts' : carts'[k].ttl = {CART_TTL} ]_vars

\* price = unit_price * quantity, as numbers, in a hash snapshot or a row
C19_Priced(item) ==
    item.price # {} /\ item.price = Times(item.unit_price, {item.quantity})

\* every snapshot in every hash and every persistent row is priced so
C19_AllPriced ==
    /\ \A k \in DOMAIN carts : \A f \in DOMAIN carts[k].fields : C19_Priced(carts[k].fields[f])
    /\ \A i \in DOMAIN cartTable : C19_Priced(cartTable[i])

\* C19: after every cart mutation in which every cache and store call succeeded,
\* each line item has price = unit_price * quantity both in its hash snapshot
\* and in its persistent row, for every quantity >= 1 supplied at add time.
C19_PriceIsUnitTimesQuantity ==
    [][ ( /\ C19_AllPriced
          /\ last'.op \in {"addCartItem", "updateCartItem", "removeCartItem",
                           "clearCart", "mergeCarts"}
          /\ last'.faults = {} )
        => C19_AllPriced' ]_vars

\* C20: the store holds at most one cart line item per (productId, owner), for
\* an authenticated owner and for the guest owner (userId unset) alike.
C20_OneRowPerProductAndOwner ==
    \A i, j \in DOMAIN cartTable :
        ( /\ cartTable[i].productId = cartTable[j].productId
          /\ cartTable[i].userId = cartTable[j].userId ) => i = j

\* C21: for every owner, the guest owner included, a removeCartItem in which no
\* cache or store call was made to throw succeeds and leaves neither a hash
\* field nor a persistent row for (owner, productId); a clearCart likewise
\* succeeds and leaves neither the owner's hash nor any row of the owner.
C21_RemoveAndClearLeaveNothing ==
    [][ /\ ( /\ last'.op = "removeCartItem"
             /\ last'.faults \cap InjectedFaults = {} )
           => /\ last'.status = 200
              /\ HGet(carts', CartKey(last'.input.user_id), last'.input.productId) = {}
              /\ OwnerRowIds(cartTable', last'.input.user_id,
                             Some(parseInt({last'.input.productId}))) = {}
        /\ ( /\ last'.op = "clearCart"
             /\ last'.faults \cap InjectedFaults = {} )
           => /\ last'.status = 200
              /\ CartKey(last'.input) \notin DOMAIN carts'
              /\ \A i \in DOMAIN cartTable' :
                    cartTable'[i].userId # NumberOf(last'.input) ]_vars

\* C22: after mergeCarts(u) reports the merge of a guest cart whose products
\* each have their one row of unset owner, for every such product the store
\* holds exactly one row owned by u and no row with
\* unset owner, and where the product was in u's hash as well that row holds
\* the summed quantity.
C22_StoreReflectsMerge ==
    [][ ( /\ last'.op = "mergeCarts"
          /\ last'.status = 200
          /\ last'.body = Message("Carts merged successfully")
          /\ \A f \in DOMAIN HGetAll(carts, GuestCartKey) :
                Cardinality(GuestRowIds(cartTable, Some(parseInt({f})))) = 1 )
        => \A f \in DOMAIN HGetAll(carts, GuestCartKey) :
             LET p == Some(parseInt({f}))
                 owned == RowIds(cartTable', NumberOf(last'.input), p)
                 userItems == HGetAll(carts, CartKey(last'.input))
             IN  /\ Cardinality(owned) = 1
                 /\ GuestRowIds(cartTable', p) = {}
                 /\ f \in DOMAIN userItems =>
                      \A i \in owned :
                        cartTable'[i].quantity =
                          userItems[f].quantity + HGetAll(carts, GuestCartKey)[f].quantity
      ]_vars

\* the sum of the numbers items[i][field] over ids; a price is an option
RECURSIVE C23_Sum(_, _, _)
C23_Sum(items, ids, field) ==
    IF ids = {} THEN 0
    ELSE LET i == CHOOSE j \in ids : TRUE
         IN  (IF field = "price" THEN Some(items[i].price) ELSE items[i].quantity)
             + C23_Sum(items, ids \ {i}, field)

\* C23: a retrieveCartItems in which no cache or store call was made to throw
\* answers, for a non-empty hash, every hash entry with total = sum of price and
\* itemCount = sum of quantity, without any store access and without changing
\* the hash; for an empty hash it writes each of the owner's persistent rows
\* into the hash under its productId, sets the 30-day expiry and answers the
\* rows with the totals computed from them.
C23_RetrieveReadsThrough ==
    [][ ( /\ last'.op = "retrieveCartItems"
          /\ last'.faults \cap InjectedFaults = {} )
        => LET key == CartKey(last'.input)
               held == HGetAll(carts, key)
               rows == {i \in DOMAIN cartTable : cartTable[i].userId = NumberOf(last'.input)}
           IN  /\ last'.status = 200
               /\ UNCHANGED cartTable
               /\ IF DOMAIN held # {}
                  THEN /\ last'.body.items = held
                       /\ last'.body.itemCount = C23_Sum(held, DOMAIN held, "quantity")
                       /\ (\A f \in DOMAIN held : held[f].price # {})
                            => last'.body.total
                                 = [number |-> {C23_Sum(held, DOMAIN held, "price")}]
                       /\ "db" \notin last'.acc
                       /\ UNCHANGED carts
                  ELSE /\ DOMAIN HGetAll(carts', key)
                            = {ToString(cartTable[i].productId) : i \in rows}
                       /\ rows # {} => carts'[key].ttl = {CART_TTL}
                       /\ DOMAIN last'.body.items = rows
                       /\ last'.body.itemCount = C23_Sum(cartTable, rows, "quantity")
                       /\ (\A i \in rows : cartTable[i].price # {})
                            => last'.body.total = {C23_Sum(cartTable, rows, "price")}
      ]_vars

\* C24: getCartTotal changes nothing, whichever branch it takes and however
\* it ends: the hashes with their expiries and the persistent rows are the same
\* after the call as before, and its answer holds only the total and the item
\* count.
C24_GetCartTotalChangesNothing ==
    [][ last'.op = "getCartTotal"
        => /\ UNCHANGED <<carts, cartTable, cartNextId>>
           /\ last'.status = 200
                => DOMAIN last'.body = {"message", "total", "itemCount"} ]_vars

\* the total of an owner whose hash is gone was computed from the owner's rows
C24_Witness ==
    /\ last.op = "getCartTotal"
    /\ last.status = 200
    /\ "db" \in last.acc
    /\ last.body.itemCount > 0
    /\ CartKey(last.input) \notin DOMAIN carts

\* C27: for every owner, the guest included, an increment, or a decrement
\* whose result is at least 1, of a line item held in the owner's hash with
\* quantity q and unit price P, in which no cache or store call was made to
\* throw, writes the new quantity and the line total P * quantity to the hash
\* field and to the owner's persistent row and reports both.
C27_UpdateWritesBothLayers ==
    [][ ( /\ last'.op = "updateCartItem"
          /\ last'.input.action \in {{"increment"}, {"decrement"}}
          /\ last'.faults \cap InjectedFaults = {}
          /\ HGet(carts, CartKey(last'.input.user_id), last'.input.productId) # {}
          /\ LET item == Some(HGet(carts, CartKey(last'.input.user_id),
                                   last'.input.productId))
             IN  /\ item.unit_price # {}
                 /\ last'.input.action = {"decrement"} => item.quantity > 1
          /\ OwnerRowIds(cartTable, last'.input.user_id,
                         Some(parseInt({last'.input.productId}))) # {} )
        => LET key == CartKey(last'.input.user_id)
               item == Some(HGet(carts, key, last'.input.productId))
               q == IF last'.input.action = {"increment"}
                    THEN item.quantity + 1 ELSE item.quantity - 1
               total == {Some(item.unit_price) * q}
               written == HGet(carts', key, last'.input.productId)
           IN  /\ last'.status = 200
               /\ last'.body.newQuantity = q
               /\ last'.body.newTotalPrice = total
               /\ written # {}
               /\ \A w \in written : w.quantity = q /\ w.price = total
               /\ \A i \in OwnerRowIds(cartTable, last'.input.user_id,
                                        Some(parseInt({last'.input.productId}))) :
                     /\ i \in DOMAIN cartTable'
                     /\ cartTable'[i].quantity = q
                     /\ cartTable'[i].price = total ]_vars

\* C30: addCartItem writes the snapshot into the owner's hash before it inserts
\* the row, on every call that passes the validation: unless the hSet itself
\* throws, the hash field holds the new snapshot afterwards; and when the
\* insert is rejected or the store fails, the caller gets a server error, the
\* store is unchanged and the hash field holds the new snapshot all the same.
C30_AddWritesHashBeforeInsert ==
    [][ ( /\ last'.op = "addCartItem"
          /\ last'.status # 400
          /\ "hSet" \notin last'.faults )
        => /\ HGet(carts', CartKey(last'.input.user_id), Some(last'.input.productId))
                = {CartItem(last'.input)}
           /\ last'.faults \cap {"store", "rejected"} # {}
                => last'.status = 500 /\ UNCHANGED cartTable ]_vars

\* a second add of product and owner was rejected by unique_cart_item: the
\* hash holds quantity 2, the owner's row quantity 1
C30_Witness ==
    /\ last.op = "addCartItem"
    /\ last.status = 500
    /\ last.faults = {"rejected"}
    /\ last.input.user_id = {"1"}
    /\ last.input.quantity = {2}
    /\ HGet(carts, CartKey(last.input.user_id), Some(last.input.productId))
         = {CartItem(last.input)}
    /\ \E i \in RowIds(cartTable, {1}, Some(parseInt(last.input.productId))) :
          cartTable[i].quantity = 1

\* C31: an addCartItem without expires_at, in which no cache or store call was
\* made to throw, succeeds and stores a line item that expires 30 days after
\* its creation, with the same value in the hash snapshot and in the persistent
\* row; without quantity it stores quantity 1 in both.
C31_AddDefaultsExpiryAndQuantity ==
    [][ ( /\ last'.op = "addCartItem"
          /\ last'.status # 400
          /\ last'.input.expires_at = {}
          /\ last'.faults \cap InjectedFaults = {} )
        => /\ last'.status = 200
           /\ \A w \in HGet(carts', CartKey(last'.input.user_id),
                             Some(last'.input.productId)) :
                 /\ w.expires_at = "now+30d"
                 /\ last'.input.quantity = {} => w.quantity = 1
           /\ \E i \in OwnerRowIds(cartTable', last'.input.user_id,
                                    Some(parseInt(last'.input.productId))) :
                 /\ cartTable'[i].expires_at = "now+30d"
                 /\ last'.input.quantity = {} => cartTable'[i].quantity = 1 ]_vars

\* the hash of an owner with its expiry, and the persistent rows of an owner
C34_Hash(c, v) == IF CartKey(v) \in DOMAIN c THEN {c[CartKey(v)]} ELSE {}
C34_Rows(t, v) == {t[i] : i \in {j \in DOMAIN t : t[j].userId = NumberOf(v)}}
C34_Owner(l) ==
    IF l.op \in {"addCartItem", "updateCartItem", "removeCartItem"}
    THEN l.input.user_id ELSE l.input

\* C34: adding, retrieving, updating the quantity, removing, clearing and
\* totalling for an owner u never change the hash or the persistent rows of a
\* different owner v, however the request ends.
C34_OwnerIsolation ==
    [][ last'.op \in {"addCartItem", "retrieveCartItems", "updateCartItem",
                      "removeCartItem", "clearCart", "getCartTotal"}
        => \A v \in UserIds \ {C34_Owner(last')} :
              /\ C34_Hash(carts', v) = C34_Hash(carts, v)
              /\ C34_Rows(cartTable', v) = C34_Rows(cartTable, v) ]_vars

\* user 1 added a line item while the guest hash held items
C34_Witness ==
    /\ last.op = "addCartItem"
    /\ last.status = 200
    /\ last.input.user_id = {"1"}
    /\ HGetAll(carts, CartKey({"1"})) # <<>>
    /\ HGetAll(carts, GuestCartKey) # <<>>
    /\ C34_Rows(cartTable, {"1"}) # {}

\* every line item of every hash has a quantity of at least 1
C35_QuantitiesPositive(c) ==
    \A k \in DOMAIN c : \A f \in DOMAIN c[k].fields : c[k].fields[f].quantity >= 1

\* C35: with every add supplying a quantity of at least 1 (or none, which
\* stores 1), every line item of a hash has a quantity of at least 1 after any
\* sequence of requests; a decrement of a line item of quantity 1 whose cache
\* calls do not fail deletes the field instead of storing quantity 0.
C35_HashQuantityAtLeastOne ==
    [][ /\ C35_QuantitiesPositive(carts')
        /\ ( /\ last'.op = "updateCartItem"
              /\ last'.input.action = {"decrement"}
              /\ last'.faults \cap {"hGet", "hDel"} = {}
              /\ \E w \in HGet(carts, CartKey(last'.input.user_id), last'.input.productId) :
                    w.quantity = 1 )
            => HGet(carts', CartKey(last'.input.user_id), last'.input.productId) = {} ]_vars

\* a line item added without a quantity was decremented and is gone, while
\* another line item stays in the hash
C35_Witness ==
    /\ last.op = "updateCartItem"
    /\ last.input.action = {"decrement"}
    /\ last.status = 200
    /\ last.body.action = "removed"
    /\ HGet(carts, CartKey(last.input.user_id), last.input.productId) = {}
    /\ HGetAll(carts, CartKey(last.input.user_id)) # <<>>

\* C36: updateCartItem decides from the hash alone whether the line item
\* exists: when the owner's hash has no field for the product, an increment or
\* decrement is answered not-found and changes neither the hashes nor the
\* persistent rows, even when the store holds a row for that product and owner.
C36_UpdateNeedsHashField ==
    [][ ( /\ last'.op = "updateCartItem"
          /\ last'.input.action \in {{"increment"}, {"decrement"}}
          /\ "hGet" \notin last'.faults
          /\ last'.input.productId
                \notin DOMAIN HGetAll(carts, CartKey(last'.input.user_id)) )
        => /\ last'.status = 404
           /\ last'.body = Message("Product not found in cart.")
           /\ UNCHANGED <<carts, cartTable, cartNextId>> ]_vars

\* an increment was answered not-found while the store holds the owner's row
C36_Witness ==
    /\ last.op = "updateCartItem"
    /\ last.status = 404
    /\ OwnerRowIds(cartTable, last.input.user_id,
                   Some(parseInt({last.input.productId}))) # {}

\* the user's field f of hash c2 is the merge of guest item g into hash c
C37_Merged(c, c2, userKey, f, g) ==
    \E w \in HGet(c2, userKey, f) :
        IF f \in DOMAIN HGetAll(c, userKey)
        THEN w.quantity = HGetAll(c, userKey)[f].quantity + g.quantity
        ELSE w = g

\* C37: mergeCarts deletes the guest hash only after every guest entry was
\* processed without an error.  When a step fails the answer is a server error,
\* the guest hash still holds all of its entries, and the entries processed
\* before the failure stay merged in the user's hash: every guest entry is
\* either merged or untouched there, and all are merged when only the final
\* deletion failed.
C37_GuestHashOutlivesFailedMerge ==
    [][ ( /\ last'.op = "mergeCarts"
          /\ last'.input \notin {{}, {""}}
          /\ DOMAIN HGetAll(carts, GuestCartKey) # {} )
        => LET guestItems == HGetAll(carts, GuestCartKey)
               userKey == CartKey(last'.input)
           IN  /\ last'.status \in {200, 500}
               /\ last'.status = 200
                    => /\ GuestCartKey \notin DOMAIN carts'
                       /\ \A f \in DOMAIN guestItems :
                             C37_Merged(carts, carts', userKey, f, guestItems[f])
               /\ last'.status = 500
                    => /\ GuestCartKey \in DOMAIN carts'
                       /\ carts'[GuestCartKey] = carts[GuestCartKey]
                       /\ \A f \in DOMAIN guestItems :
                             \/ C37_Merged(carts, carts', userKey, f, guestItems[f])
                             \/ /\ last'.faults # {"del"}
                                /\ HGet(carts', userKey, f) = HGet(carts, userKey, f) ]_vars

\* the merge of a guest hash of two entries failed at the second entry: the
\* first is in the user's hash, the guest hash still has both
C37_Witness ==
    /\ last.op = "mergeCarts"
    /\ last.status = 500
    /\ last.faults \in {{"hSet"}, {"store"}}
    /\ Cardinality(DOMAIN HGetAll(carts, GuestCartKey)) = 2
    /\ Cardinality(DOMAIN HGetAll(carts, CartKey(last.input))) = 1

\* C38: an increment followed by a decrement of the same line item restores
\* the line as addCartItem created it, in the hash and in the store: the same
\* quantity and the same line total, for every quantity the add supplied.
\* (With two requests handled before the decrement, the line is the one the
\* first request added and the second incremented.)
C38_IncrementThenDecrementIsIdentity ==
    [][ ( /\ handled = 2
          /\ last.op = "updateCartItem"
          /\ last.input.action = {"increment"}
          /\ last.status = 200
          /\ last'.op = "updateCartItem"
          /\ last'.input = [last.input EXCEPT !.action = {"decrement"}]
          /\ last'.status = 200 )
        => \E b \in AddBodies :
              /\ b.productId = {last.input.productId}
              /\ b.price # {}
              /\ b.user_id = last.input.user_id
              /\ OrNumber(b.quantity, 1) = last.body.newQuantity - 1
              /\ \E w \in HGet(carts', CartKey(b.user_id), Some(b.productId)) :
                    /\ w.quantity = CartItem(b).quantity
                    /\ w.price = CartItem(b).price
              /\ \A i \in OwnerRowIds(cartTable', b.user_id, Some(parseInt(b.productId))) :
                    /\ cartTable'[i].quantity = CartRow(i, b).quantity
                    /\ cartTable'[i].price = CartRow(i, b).price ]_vars

(***************************************************************************)
(* Both controllers behind one server, one request at a time.              *)
(***************************************************************************)
InitMixed ==
    /\ controller \in Revisions
    /\ products = [i \in {1} |-> SeedProducts[i]]
    /\ nextId = 2
    /\ cache = <<>>
    /\ last = NoRequest
    /\ handled = 0
    /\ cartTable = <<>>
    /\ cartNextId = 1
    /\ carts = <<>>
    /\ keyReq = NoKeyReq
    /\ inflight = NoneInFlight

ProductStep == handled < MaxMixedRequests /\ Next
CartStep == handled < MaxMixedRequests /\ NextCart

\* identifiers that are no positive integer but that parseInt does not turn
\* into NaN
LooseIdParams == {"1x", "0", "-1"}

LooseIdStep ==
    /\ handled < MaxMixedRequests
    /\ \E i \in LooseIdParams :
         /\ \/ getProductById(i)
            \/ \E b \in UpdateBodies : updateProduct(i, b)
            \/ deleteProduct(i)
         /\ ProductRequest

NextMixed == ProductStep \/ CartStep \/ LooseIdStep

SpecMixed == InitMixed /\ [][NextMixed]_vars

\* C16: a request the validation rejects is answered 400 and touches neither
\* layer: createProduct without name, description, price or category;
\* updateProduct, for a numeric id, with no updatable field or with a price that
\* is not a non-negative number; updateCartItem with an action other than
\* increment/decrement; addCartItem without productId or price; mergeCarts
\* without user_id.
C16_RejectedRequestTouchesNothing ==
    [][ ( \/ /\ last'.op = "createProduct"
             /\ \E f \in {"name", "description", "price", "category"} :
                   last'.input[f] \in {{}, {""}}
          \/ /\ last'.op = "updateProduct"
             /\ getId(last'.input.id) # {}
             /\ \/ \A f \in DOMAIN last'.input.body : last'.input.body[f] = {}
                \/ /\ last'.input.body.price # {}
                   /\ \A n \in ParseIntStr(Some(last'.input.body.price)) : n < 0
          \/ /\ last'.op = "updateCartItem"
             /\ last'.input.action \notin {{"increment"}, {"decrement"}}
          \/ /\ last'.op = "addCartItem"
             /\ \/ last'.input.productId \in {{}, {""}}
                \/ last'.input.price \in {{}, {""}}
          \/ /\ last'.op = "mergeCarts"
             /\ last'.input \in {{}, {""}} )
        => ( /\ last'.status = 400
             /\ last'.acc = {}
             /\ UNCHANGED <<products, nextId, cache, carts, cartTable, cartNextId>> ) ]_vars

\* an update with a negative price was rejected while the cache held the
\* product's entry and the store its row
C16_Witness ==
    /\ last.op = "updateProduct"
    /\ last.status = 400
    /\ last.body = Message("Price must be a valid non-negative number")
    /\ ProductCacheKey(1) \in DOMAIN cache
    /\ cache[ProductCacheKey(1)].value = products[1]

\* C32: getProductById, updateProduct and deleteProduct accept only an id that
\* is a positive integer: an id of 0, a negative id or digits followed by other
\* characters is answered 400 and reaches neither the cache nor the store.
\* (An id without any leading digit is the case of C11.)
C32_OnlyPositiveIntegerIds ==
    ( /\ last.op \in {"getProductById", "updateProduct", "deleteProduct"}
      /\ getId(LastIdParam) # {}
      /\ ~( /\ \A k \in 1..Len(LastIdParam) : IsDigit(CharAt(LastIdParam, k))
            /\ \A n \in getId(LastIdParam) : n >= 1 ) )
        => /\ last.status = 400
           /\ last.acc = {}

(***************************************************************************)
(* ProductCtrl of part_004 with requests interleaved.  A handler runs from *)
(* one await to the next without interruption (one event-loop turn); each  *)
(* step below is the cache or store call that await completes, together   *)
(* with the synchronous code that follows it.  No call throws here.  The   *)
(* scan loop and the del of Promise.all are taken as one step.             *)
(***************************************************************************)
Slots == 1..MaxInflight

ConcIdParams == {"1"}
ConcQueries == {NoQuery, [NoQuery EXCEPT !.category = {"c1"}]}
ConcUpdateBodies == {[NoBody EXCEPT !.price = {"7"}]}
ConcCreateBodies ==
    { [name |-> {"bolt"}, description |-> {"d"}, price |-> {"5"}, category |-> {"c2"},
       inStock |-> {}] }

\* a request arrives: its handler runs up to the completion of its first await
Arrive(s) ==
    /\ inflight[s].pc = "idle"
    /\ handled < MaxConcRequests
    /\ handled' = handled + 1

\* the handler in slot s is suspended at position pc of operation op
At(s, op, pc) == inflight[s].op = op /\ inflight[s].pc = pc

Suspend(s, slot) == inflight' = [inflight EXCEPT ![s] = slot]

\* the handler in slot s sends its response
Respond(s, response) ==
    /\ inflight' = [inflight EXCEPT ![s] = IdleSlot]
    /\ last' = response

ConcFrame == UNCHANGED <<controller, keyReq, cartTable, cartNextId, carts>>

\* getProductById: redisClient.get
ConcGetProductByIdGet(s) ==
    \E idParam \in ConcIdParams :
      LET id == Some(getId(idParam))
          cachedProduct == CacheGet(cache, ProductCacheKey(id))
      IN  /\ Arrive(s)
          /\ IF cachedProduct # {}
             THEN Respond(s, Done("getProductById", idParam, 200, Some(cachedProduct), {},
                                  {"cache"}))
             ELSE /\ Suspend(s, [IdleSlot EXCEPT !.op = "getProductById",
                                                !.pc = "select", !.id = id])
                  /\ UNCHANGED last
          /\ UNCHANGED <<products, nextId, cache>>
          /\ ConcFrame

\* getProductById: db.select ... where id = productId
ConcGetProductByIdSelect(s) ==
    /\ At(s, "getProductById", "select")
    /\ IF inflight[s].id \in DOMAIN products
       THEN /\ Suspend(s, [inflight[s] EXCEPT !.pc = "setEx",
                                              !.row = {products[inflight[s].id]}])
            /\ UNCHANGED last
       ELSE Respond(s, Done("getProductById", ToString(inflight[s].id), 404,
                            Message("Product not found"), {}, {"cache", "db"}))
    /\ UNCHANGED <<products, nextId, cache, handled>>
    /\ ConcFrame

\* getProductById: redisClient.setEx of the row read, then the response
ConcGetProductByIdSetEx(s) ==
    /\ At(s, "getProductById", "setEx")
    /\ cache' = CacheSet(cache, ProductCacheKey(inflight[s].id), Some(inflight[s].row),
                         PRODUCT_TTL)
    /\ Respond(s, Done("getProductById", ToString(inflight[s].id), 200,
                       Some(inflight[s].row), {}, {"cache", "db"}))
    /\ UNCHANGED <<products, nextId, handled>>
    /\ ConcFrame

\* getProducts: redisClient.get
ConcGetProductsGet(s) ==
    \E q \in ConcQueries :
      LET cachedData == CacheGet(cache, ListingCacheKey("part_004", q))
      IN  /\ Arrive(s)
          /\ IF cachedData # {}
             THEN Respond(s, Done("getProducts", q, 200,
                                  HitBody(ListingParams("part_004", q), Some(cachedData)),
                                  {}, {"cache"}))
             ELSE /\ Suspend(s, [IdleSlot EXCEPT !.op = "getProducts", !.pc = "count",
                                                !.q = q])
                  /\ UNCHANGED last
          /\ UNCHANGED <<products, nextId, cache>>
          /\ ConcFrame

\* getProducts: the count query
ConcGetProductsCount(s) ==
    /\ At(s, "getProducts", "count")
    /\ Suspend(s, [inflight[s] EXCEPT
                     !.pc = "select",
                     !.count = Cardinality(WhereCategory(Rows, inflight[s].q.category))])
    /\ UNCHANGED <<products, nextId, cache, last, handled>>
    /\ ConcFrame

\* getProducts: the page query; totalCount and totalPages come from the count
\* read before
ConcGetProductsSelect(s) ==
    /\ At(s, "getProducts", "select")
    /\ LET p == ListingParams("part_004", inflight[s].q)
       IN  \E res \in ListingResults(Rows, p) :
             Suspend(s, [inflight[s] EXCEPT
                           !.pc = "set",
                           !.listing = {[res EXCEPT
                                           !.totalCount = inflight[s].count,
                                           !.totalPages = Ceil(inflight[s].count, p.limit)]}])
    /\ UNCHANGED <<products, nextId, cache, last, handled>>
    /\ ConcFrame

\* getProducts: redisClient.set of responseData, then the response
ConcGetProductsSet(s) ==
    /\ At(s, "getProducts", "set")
    /\ LET p == ListingParams("part_004", inflight[s].q)
           res == Some(inflight[s].listing)
       IN  /\ cache' = CacheSet(cache, ListingCacheKey("part_004", inflight[s].q),
                                ResponseData("part_004", p, res), CACHE_TTL)
           /\ Respond(s, Done("getProducts", inflight[s].q, 200,
                              MissBody("part_004", p, res), {}, {"cache", "db"}))
    /\ UNCHANGED <<products, nextId, handled>>
    /\ ConcFrame

\* createProduct: db.insert
ConcCreateProductInsert(s) ==
    \E b \in ConcCreateBodies :
      /\ Arrive(s)
      /\ nextId <= MaxProducts
      /\ products' = [i \in DOMAIN products \cup {nextId} |->
                        IF i = nextId THEN NewRow(nextId, b) ELSE products[i]]
      /\ nextId' = nextId + 1
      /\ Suspend(s, [IdleSlot EXCEPT !.op = "createProduct", !.pc = "invalidate",
                                     !.body = b])
      /\ UNCHANGED <<cache, last>>
      /\ ConcFrame

\* updateProduct: db.update ... returning
ConcUpdateProductUpdate(s) ==
    \E idParam \in ConcIdParams, b \in ConcUpdateBodies :
      LET id == Some(getId(idParam))
      IN  /\ Arrive(s)
          /\ IF id \in DOMAIN products
             THEN /\ products' = [products EXCEPT ![id] = UpdatedRow(@, b)]
                  /\ Suspend(s, [IdleSlot EXCEPT !.op = "updateProduct",
                                                !.pc = "invalidate", !.id = id,
                                                !.body = b,
                                                !.row = {UpdatedRow(products[id], b)}])
                  /\ UNCHANGED last
             ELSE /\ Respond(s, Done("updateProduct", [id |-> idParam, body |-> b], 404,
                                     Message("Product not found"), {}, {"db"}))
                  /\ UNCHANGED products
          /\ UNCHANGED <<nextId, cache>>
          /\ ConcFrame

\* deleteProduct: db.delete
ConcDeleteProductDelete(s) ==
    \E idParam \in ConcIdParams :
      LET id == Some(getId(idParam))
      IN  /\ Arrive(s)
          /\ IF id \in DOMAIN products
             THEN /\ products' = [i \in DOMAIN products \ {id} |-> products[i]]
                  /\ Suspend(s, [IdleSlot EXCEPT !.op = "deleteProduct",
                                                !.pc = "invalidate", !.id = id])
                  /\ UNCHANGED last
             ELSE /\ Respond(s, Done("deleteProduct", idParam, 404,
                                     Message("Product not found"), {}, {"db"}))
                  /\ UNCHANGED products
          /\ UNCHANGED <<nextId, cache>>
          /\ ConcFrame

\* the invalidation after a store write, then the response: createProduct
\* awaits invalidateCachePattern, updateProduct and deleteProduct await it
\* together with the del of product:<id>
ConcInvalidate(s) ==
    /\ inflight[s].pc = "invalidate"
    /\ LET op == inflight[s].op
           keys == ListingKeys(cache)
                     \cup (IF op = "createProduct" THEN {}
                           ELSE {ProductCacheKey(inflight[s].id)})
       IN  /\ cache' = CacheDel(cache, keys)
           /\ Respond(s, CASE op = "createProduct" ->
                                Done(op, inflight[s].body, 201, Message("Product created"),
                                     {}, {"db", "cache"})
                           [] op = "updateProduct" ->
                                Done(op, [id |-> ToString(inflight[s].id),
                                          body |-> inflight[s].body], 200,
                                     Some(inflight[s].row), {}, {"db", "cache"})
                           [] op = "deleteProduct" ->
                                Done(op, ToString(inflight[s].id), 200,
                                     Message("Product deleted successfully"), {},
                                     {"db", "cache"}))
    /\ UNCHANGED <<products, nextId, handled>>
    /\ ConcFrame

\* a key reaches its TTL
ConcKeyExpires ==
    /\ \E k \in DOMAIN cache : cache' = CacheDel(cache, {k})
    /\ UNCHANGED <<products, nextId, last, handled, inflight>>
    /\ ConcFrame

InitConc ==
    /\ controller = "part_004"
    /\ products = [i \in {1} |-> SeedProducts[i]]
    /\ nextId = 2
    /\ cache = <<>>
    /\ last = NoRequest
    /\ handled = 0
    /\ cartTable = <<>>
    /\ cartNextId = 1
    /\ carts = <<>>
    /\ keyReq = NoKeyReq
    /\ inflight = NoneInFlight

NextConc ==
    \/ \E s \in Slots : ConcGetProductByIdGet(s)
    \/ \E s \in Slots : ConcGetProductByIdSelect(s)
    \/ \E s \in Slots : ConcGetProductByIdSetEx(s)
    \/ \E s \in Slots : ConcGetProductsGet(s)
    \/ \E s \in Slots : ConcGetProductsCount(s)
    \/ \E s \in Slots : ConcGetProductsSelect(s)
    \/ \E s \in Slots : ConcGetProductsSet(s)
    \/ \E s \in Slots : ConcCreateProductInsert(s)
    \/ \E s \in Slots : ConcUpdateProductUpdate(s)
    \/ \E s \in Slots : ConcDeleteProductDelete(s)
    \/ \E s \in Slots : ConcInvalidate(s)
    \/ ConcKeyExpires

SpecConc == InitConc /\ [][NextConc]_vars

\* no request is in flight
Quiescent == \A s \in Slots : inflight[s].pc = "idle"

\* C2: whenever no request is in flight, each single-product entry present in
\* the cache is the current row of its id and each listing entry present is a
\* result the listing query of its parameters would return now.
C2_QuiescentCacheAgrees ==
    Quiescent =>
        /\ \A id \in 1..MaxProducts :
              ProductCacheKey(id) \in DOMAIN cache =>
                  /\ id \in DOMAIN products
                  /\ cache[ProductCacheKey(id)].value = products[id]
        /\ \A q \in ConcQueries :
              LET p == ListingParams("part_004", q)
                  key == ListingCacheKey("part_004", q)
              IN  key \in DOMAIN cache =>
                      cache[key].value \in
                          { ResponseData("part_004", p, res) :
                              res \in ListingResults(Rows, p) }

(***************************************************************************)
(* CartCtrl.updateCartItem with requests interleaved.  Two handlers may be *)
(* in flight; each is split at its awaits: hGet, hSet, db.update.  User 1  *)
(* holds the line items of products 1 and 2 in the hash and in the store.  *)
(***************************************************************************)
ConcCartItem(productId) ==
    [ productId |-> {productId}, quantity |-> {}, price |-> {"10"},
      expires_at |-> {"2030-01-01"}, user_id |-> {"1"} ]

InitCartConc ==
    /\ controller = "part_004"
    /\ products = SeedProducts
    /\ nextId = 3
    /\ cache = <<>>
    /\ last = NoRequest
    /\ handled = 0
    /\ cartTable = InsertRow(InsertRow(<<>>, CartRow(1, ConcCartItem("1"))),
                             CartRow(2, ConcCartItem("2")))
    /\ cartNextId = 3
    /\ carts = ExpireKey(HSet(HSet(<<>>, CartKey({"1"}), "1", CartItem(ConcCartItem("1"))),
                              CartKey({"1"}), "2", CartItem(ConcCartItem("2"))),
                         CartKey({"1"}), CART_TTL)
    /\ keyReq = NoKeyReq
    /\ inflight = NoneInFlight

\* a quantity taken from the hash as it is when the write is made
StoredQuantity(itemData, stored) == stored.quantity

\* let newQuantity = itemData.quantity: the quantity parsed from the hGet reply,
\* whatever the hash holds by now
ReadQuantity(itemData, stored) == itemData.quantity

\* updateCartItem {action: "increment"}: redisClient.hGet
ConcUpdateCartItemHGet(s) ==
    \E productId \in ProductParams :
      LET existingItem == HGet(carts, CartKey({"1"}), productId)
          input == [productId |-> productId, action |-> {"increment"}, user_id |-> {"1"}]
      IN  /\ Arrive(s)
          /\ IF existingItem = {}
             THEN Respond(s, Done("updateCartItem", input, 404,
                                  Message("Product not found in cart."), {}, {"cache"}))
             ELSE /\ Suspend(s, [IdleSlot EXCEPT !.op = "updateCartItem", !.pc = "hSet",
                                                 !.id = Some(parseInt({productId})),
                                                 !.row = existingItem])
                  /\ UNCHANGED last
          /\ UNCHANGED <<controller, keyReq, products, nextId, cache, carts, cartTable,
                         cartNextId>>

\* updateCartItem: redisClient.hSet of the item read, with the new quantity
ConcUpdateCartItemHSet(s) ==
    /\ At(s, "updateCartItem", "hSet")
    /\ LET field == ToString(inflight[s].id)
           itemData == Some(inflight[s].row)
           newQuantity == ReadQuantity(itemData, Some(HGet(carts, CartKey({"1"}), field))) + 1
           newTotalPrice == Times(UnitPriceOf(itemData), {newQuantity})
       IN  /\ carts' = HSet(carts, CartKey({"1"}), field,
                            [itemData EXCEPT !.quantity = newQuantity,
                                             !.price = newTotalPrice,
                                             !.textual = @ \ {"price"}])
           /\ Suspend(s, [inflight[s] EXCEPT !.pc = "update", !.count = newQuantity])
    /\ UNCHANGED <<controller, keyReq, products, nextId, cache, cartTable, cartNextId,
                   last, handled>>

\* updateCartItem: db.update of the owner's row, then the response
ConcUpdateCartItemUpdate(s) ==
    /\ At(s, "updateCartItem", "update")
    /\ LET newQuantity == inflight[s].count
           newTotalPrice == Times(UnitPriceOf(Some(inflight[s].row)), {newQuantity})
       IN  /\ cartTable' = UpdateRows(cartTable,
                                      RowIds(cartTable, NumberOf({"1"}), inflight[s].id),
                                      newQuantity, newTotalPrice)
           /\ Respond(s, Done("updateCartItem",
                              [productId |-> ToString(inflight[s].id),
                               action |-> {"increment"}, user_id |-> {"1"}], 200,
                              [message |-> "Cart item quantity updated.",
                               productId |-> {inflight[s].id},
                               newQuantity |-> newQuantity,
                               newTotalPrice |-> newTotalPrice,
                               action |-> "updated"],
                              {}, {"cache", "db"}))
    /\ UNCHANGED <<controller, keyReq, products, nextId, cache, carts, cartNextId,
                   handled>>

NextCartConc ==
    \/ \E s \in Slots : ConcUpdateCartItemHGet(s)
    \/ \E s \in Slots : ConcUpdateCartItemHSet(s)
    \/ \E s \in Slots : ConcUpdateCartItemUpdate(s)

SpecCartConc == InitCartConc /\ [][NextCartConc]_vars

\* C28: an increment is a read-modify-write without compare-and-swap: the
\* quantity it writes to the hash is the quantity its own hGet returned plus 1,
\* whatever another increment wrote in between, so two interleaved increments
\* can both report success and leave the initial quantity plus 1.
C28_IncrementWritesWhatItRead ==
    [][ \A s \in Slots :
          ( /\ At(s, "updateCartItem", "hSet")
            /\ inflight'[s].pc = "update" )
          => \A w \in HGet(carts', CartKey({"1"}), ToString(inflight[s].id)) :
               w.quantity = Some(inflight[s].row).quantity + 1 ]_vars

\* two increments of the line of product 1, of quantity 1, were answered and
\* nothing is in flight: hash and row hold quantity 2 (the line of product 2 was
\* not touched, and every increment of a present line is answered 200)
C28_Witness ==
    /\ Quiescent
    /\ handled = 2
    /\ last.op = "updateCartItem"
    /\ last.status = 200
    /\ \A w \in HGet(carts, CartKey({"1"}), "1") : w.quantity = 2
    /\ \A w \in HGet(carts, CartKey({"1"}), "2") : w.quantity = 1
    /\ \A i \in RowIds(cartTable, {1}, 1) : cartTable[i].quantity = 2
    /\ \A i \in RowIds(cartTable, {1}, 2) : cartTable[i].quantity = 1

====
